---- MODULE Spec2Model ----
(***************************************************************************)
(* A model of the beat-saber-map crate: the directory assembler            *)
(* BeatSaberMap::from_dir (src/lib.rs), the integer-coded enums of         *)
(* src/beatmap.rs with their TryFrom<u8> / Into<u8> conversions, and the   *)
(* serde decoding of enum-valued fields in Beatmap::from_file, the hex     *)
(* colour codec of src/hex.rs and the JSON codec of the three map files.   *)
(*                                                                         *)
(* Paths and OsStrings are sequences of one-character strings, so that     *)
(* Path::join and Path::file_stem are computed on the text as std does.    *)
(***************************************************************************)
EXTENDS Integers, Sequences, FiniteSets, TLC

VARIABLES
    fs,        \* the directory on disk: path -> "missing" | "dir" | "malformed" | "ok"
    infoDoc,   \* what Info.dat decodes to when it is readable and well-formed
    pc,        \* position of from_dir: "info", "beatmaps", "done" ("idle": not running)
    info,      \* local `info` of from_dir
    idx,       \* position of the for loop over info.difficulty_beatmaps (1-based)
    beatmaps,  \* local `beatmaps` of from_dir: a function from key to Beatmap
    result,    \* what from_dir returned
    reads,     \* the from_file calls made so far, in order
    eArg,      \* argument of an enum conversion
    eOut,      \* result of the conversion
    eBack,     \* result of converting eOut back
    bmFile,    \* a beatmap file for Beatmap::from_file: the enum-coded fields it holds
    bmOut,     \* result of Beatmap::from_file on bmFile
    hArg,      \* argument of the hex codec: a u32 to serialize or a text to visit
    hOut,      \* result of hex::serialize or of HexVisitor::visit_str on hArg
    hBack,     \* result of the opposite conversion applied to hOut
    hCases,    \* results of visit_str on the lower-case and upper-case spellings
    cArg,      \* argument of the JSON codec: a value to serialize, or a document to
               \* read with the keys that were left out of it
    cOut,      \* result of serde_json::to_string_pretty or ::from_str on cArg
    cBack,     \* result of the opposite conversion applied to cOut
    cAgain     \* result of serializing cBack once more

vars == <<fs, infoDoc, pc, info, idx, beatmaps, result, reads,
          eArg, eOut, eBack, bmFile, bmOut, hArg, hOut, hBack, hCases,
          cArg, cOut, cBack, cAgain>>

dirVars == <<fs, infoDoc, pc, info, idx, beatmaps, result, reads>>
enumVars == <<eArg, eOut, eBack>>
fileVars == <<bmFile, bmOut>>
hexVars == <<hArg, hOut, hBack, hCases>>
codecVars == <<cArg, cOut, cBack, cAgain>>

(***************************************************************************)
(* Bounds of the model.                                                    *)
(***************************************************************************)
MaxBeatmaps == 2   \* longest difficulty_beatmaps list of an Info.dat
MaxFields == 2     \* most enum-coded fields in a beatmap file
MaxRaw == 9        \* small integers a field holds run from -1 to MaxRaw

MaxHexLow == 17    \* low limbs of the u32 values run from 0 to MaxHexLow
MaxHexLen == 3     \* longest text over the hex alphabet handed to visit_str

MaxItems == 2      \* longest list in a value handed to the JSON codec
MaxOmit == 2       \* most keys left out of a document at once

U8Max == 255       \* largest u8

None == [tag |-> "None"]
Some(x) == [tag |-> "Some", v |-> x]

(***************************************************************************)
(* Paths: std::path as used by from_dir.                                   *)
(***************************************************************************)
Sep == "/"
Dot == "."

IsAbsolute(p) == Len(p) > 0 /\ p[1] = Sep

\* Path::join: an absolute argument replaces the base; otherwise the argument
\* is appended after a separator.
Join(d, p) ==
    IF IsAbsolute(p) THEN p
    ELSE IF d = <<>> \/ d[Len(d)] = Sep THEN d \o p
    ELSE d \o <<Sep>> \o p

FirstSep(s) ==
    IF \E i \in 1..Len(s) : s[i] = Sep
    THEN CHOOSE i \in 1..Len(s) : s[i] = Sep /\ \A j \in 1..(i - 1) : s[j] # Sep
    ELSE Len(s) + 1

\* Path::components, without the root: empty and "." components are dropped.
RECURSIVE Components(_)
Components(s) ==
    IF s = <<>> THEN <<>>
    ELSE LET i == FirstSep(s)
             head == SubSeq(s, 1, i - 1)
             rest == SubSeq(s, i + 1, Len(s))
         IN (IF head = <<>> \/ head = <<Dot>> THEN <<>> ELSE <<head>>)
                \o Components(rest)

\* Path::file_name: the last component, unless there is none or it is "..".
FileName(p) ==
    LET c == Components(p)
    IN IF c = <<>> THEN None
       ELSE IF c[Len(c)] = <<Dot, Dot>> THEN None
       ELSE Some(c[Len(c)])

LastDot(name) ==
    IF \E i \in 1..Len(name) : name[i] = Dot
    THEN CHOOSE i \in 1..Len(name) :
            name[i] = Dot /\ \A j \in (i + 1)..Len(name) : name[j] # Dot
    ELSE 0

\* Path::file_stem: the file name up to its last dot; the whole file name when
\* it has no dot or only a leading one.
FileStem(p) ==
    LET n == FileName(p)
    IN IF n.tag = "None" THEN None
       ELSE IF LastDot(n.v) <= 1 THEN Some(n.v)
       ELSE Some(SubSeq(n.v, 1, LastDot(n.v) - 1))

\* .file_stem().unwrap_or(beatmap_data_filename.as_os_str()).to_os_string()
BeatmapKey_FullName(f) == f
BeatmapKey(f) == IF FileStem(f).tag = "Some" THEN FileStem(f).v ELSE f

(***************************************************************************)
(* The names the model works with.                                         *)
(***************************************************************************)
Dir == <<"s", "a", "m", "p", "l", "e">>
InfoDat == <<"I", "n", "f", "o", ".", "d", "a", "t">>
EasyDat == <<"E", "a", "s", "y", ".", "d", "a", "t">>
EasyJson == <<"E", "a", "s", "y", ".", "j", "s", "o", "n">>
HardDat == <<"H", "a", "r", "d", ".", "d", "a", "t">>
SubEasyDat == <<"a", "/", "E", "a", "s", "y", ".", "d", "a", "t">>
HiddenDat == <<".", "d", "a", "t">>
Parent == <<".", ".">>
AbsEasyDat == <<"/", "E", "a", "s", "y", ".", "d", "a", "t">>
BPMInfoDat == <<"B", "P", "M", "I", "n", "f", "o", ".", "d", "a", "t">>
AudioDat == <<"A", "u", "d", "i", "o", ".", "d", "a", "t">>
LightshowDat == <<"L", "i", "g", "h", "t", "s", "h", "o", "w", ".", "d", "a", "t">>

BeatmapNames == {EasyDat, EasyJson, HardDat, SubEasyDat, HiddenDat, Parent, AbsEasyDat}
AudioNames == {BPMInfoDat, AudioDat}

AllPaths ==
    {Join(Dir, f) : f \in BeatmapNames \cup AudioNames \cup {InfoDat, LightshowDat}}

SeqsUpTo(S, n) == UNION {[1..k -> S] : k \in 0..n}

Range(s) == {s[i] : i \in 1..Len(s)}

(***************************************************************************)
(* The directory on disk and the three from_file loaders.                  *)
(***************************************************************************)
InfoPath == Join(Dir, InfoDat)

\* Reading a path that names no file (it ends in "..") meets a directory.
IsDirPath(p) == FileName(p).tag = "None"

FileStatuses == {"missing", "malformed", "ok"}

\* info::DifficultyBeatmap, its two file names.
DifficultyBeatmaps ==
    [beatmap_data_filename : BeatmapNames, lightshow_data_filename : {LightshowDat}]

InfoDocs ==
    [audio_data_filename : AudioNames,
     difficulty_beatmaps : SeqsUpTo(DifficultyBeatmaps, MaxBeatmaps)]

\* The beatmap and audio paths an Info document points at.
Referenced(doc) ==
    {Join(Dir, b.beatmap_data_filename) : b \in Range(doc.difficulty_beatmaps)}
        \cup {Join(Dir, doc.audio_data_filename)}

Err(kind, p) == [tag |-> "Err", kind |-> kind, path |-> p]
Ok(x) == [tag |-> "Ok", v |-> x]

\* The mutant reads with a fallback to the empty text, so that a missing file
\* fails in the decoder.
FromFile_NoIo(p, value) ==
    IF fs[p] = "ok" THEN Ok(value) ELSE Err("SerdeJson", p)

\* Ok(serde_json::from_str(&fs::read_to_string(path)?)?): an unreadable path is
\* an io::Error, a readable one that does not decode a serde_json::Error, each
\* converted by #[from].
FromFile(p, value) ==
    IF fs[p] \in {"missing", "dir"} THEN Err("Io", p)
    ELSE IF fs[p] = "malformed" THEN Err("SerdeJson", p)
    ELSE Ok(value)

InfoFromFile(p) == FromFile(p, infoDoc)
BeatmapFromFile(p) == FromFile(p, [beatmap |-> p])

\* The mutant swallows the failure and yields a value all the same.
AudioFromFile_Default(p) == Ok([audio |-> p])
AudioFromFile(p) == FromFile(p, [audio |-> p])

\* The mutant starts from a fresh map at every insertion.
Insert_Fresh(m, k, v) == [x \in {k} |-> v]
\* The mutant keeps the value already held under the key.
Insert_KeepFirst(m, k, v) ==
    [x \in (DOMAIN m) \cup {k} |-> IF x \in DOMAIN m THEN m[x] ELSE v]
\* HashMap::insert: a later value replaces an earlier one under the same key.
Insert(m, k, v) == [x \in (DOMAIN m) \cup {k} |-> IF x = k THEN v ELSE m[x]]

Read(kind, p) == [kind |-> kind, path |-> p]

EnumIdle == eArg = None /\ eOut = None /\ eBack = None
FileIdle == bmFile = None /\ bmOut = None
HexIdle == hArg = None /\ hOut = None /\ hBack = None /\ hCases = None
CodecIdle == cArg = None /\ cOut = None /\ cBack = None /\ cAgain = None

Init ==
    /\ \E doc \in InfoDocs, infoSt \in FileStatuses, lightSt \in FileStatuses :
         \E st \in [{p \in Referenced(doc) : ~IsDirPath(p)} -> FileStatuses] :
            /\ infoDoc = doc
            /\ fs = [p \in AllPaths |->
                        IF p = InfoPath THEN infoSt
                        ELSE IF p = Join(Dir, LightshowDat) THEN lightSt
                        ELSE IF IsDirPath(p) THEN "dir"
                        ELSE IF p \in Referenced(doc) THEN st[p]
                        ELSE "missing"]
    /\ pc = "info"
    /\ info = None
    /\ idx = 1
    /\ beatmaps = <<>>
    /\ result = None
    /\ reads = <<>>
    /\ EnumIdle
    /\ FileIdle
    /\ HexIdle
    /\ CodecIdle

\* The mutant carries on with a default Info when Info.dat does not load.
LoadInfo_Default ==
    /\ pc = "info"
    /\ LET p == Join(Dir, InfoDat)
           r == InfoFromFile(p)
       IN /\ reads' = Append(reads, Read("Info", p))
          /\ info' = IF r.tag = "Err"
                     THEN [audio_data_filename |-> BPMInfoDat,
                           difficulty_beatmaps |-> <<>>]
                     ELSE r.v
          /\ pc' = "beatmaps"
          /\ UNCHANGED result
    /\ UNCHANGED <<fs, infoDoc, idx, beatmaps>>
    /\ UNCHANGED <<enumVars, fileVars, hexVars, codecVars>>

\* let info = Info::from_file(dir.as_ref().join("Info.dat"))?;
\* let mut beatmaps = HashMap::new();
LoadInfo ==
    /\ pc = "info"
    /\ LET p == Join(Dir, InfoDat)
           r == InfoFromFile(p)
       IN /\ reads' = Append(reads, Read("Info", p))
          /\ IF r.tag = "Err"
             THEN /\ result' = r
                  /\ pc' = "done"
                  /\ UNCHANGED info
             ELSE /\ info' = r.v
                  /\ pc' = "beatmaps"
                  /\ UNCHANGED result
    /\ UNCHANGED <<fs, infoDoc, idx, beatmaps>>
    /\ UNCHANGED <<enumVars, fileVars, hexVars, codecVars>>

\* The mutant skips an entry whose file does not load.
LoadBeatmap_Skip ==
    /\ pc = "beatmaps"
    /\ idx <= Len(info.difficulty_beatmaps)
    /\ LET f == info.difficulty_beatmaps[idx].beatmap_data_filename
           k == BeatmapKey(f)
           p == Join(Dir, f)
           r == BeatmapFromFile(p)
       IN /\ reads' = Append(reads, Read("Beatmap", p))
          /\ idx' = idx + 1
          /\ beatmaps' = IF r.tag = "Err" THEN beatmaps ELSE Insert(beatmaps, k, r.v)
          /\ UNCHANGED <<pc, result>>
    /\ UNCHANGED <<fs, infoDoc, info>>
    /\ UNCHANGED <<enumVars, fileVars, hexVars, codecVars>>

\* The mutant reads a file that did not load a second time before giving up.
LoadBeatmap_Retry ==
    /\ pc = "beatmaps"
    /\ idx <= Len(info.difficulty_beatmaps)
    /\ LET f == info.difficulty_beatmaps[idx].beatmap_data_filename
           k == BeatmapKey(f)
           p == Join(Dir, f)
           r == BeatmapFromFile(p)
       IN IF r.tag = "Err"
          THEN /\ reads' = Append(Append(reads, Read("Beatmap", p)), Read("Beatmap", p))
               /\ result' = r
               /\ pc' = "done"
               /\ UNCHANGED <<idx, beatmaps>>
          ELSE /\ reads' = Append(reads, Read("Beatmap", p))
               /\ beatmaps' = Insert(beatmaps, k, r.v)
               /\ idx' = idx + 1
               /\ UNCHANGED <<pc, result>>
    /\ UNCHANGED <<fs, infoDoc, info>>
    /\ UNCHANGED <<enumVars, fileVars, hexVars, codecVars>>

\* The mutant loads the entry's lightshow file after its beatmap file.
LoadBeatmap_Lightshow ==
    /\ pc = "beatmaps"
    /\ idx <= Len(info.difficulty_beatmaps)
    /\ LET f == info.difficulty_beatmaps[idx].beatmap_data_filename
           k == BeatmapKey(f)
           p == Join(Dir, f)
           r == BeatmapFromFile(p)
           lp == Join(Dir, info.difficulty_beatmaps[idx].lightshow_data_filename)
           lr == FromFile(lp, [lightshow |-> lp])
       IN IF r.tag = "Err"
          THEN /\ reads' = Append(reads, Read("Beatmap", p))
               /\ result' = r
               /\ pc' = "done"
               /\ UNCHANGED <<idx, beatmaps>>
          ELSE /\ reads' = Append(Append(reads, Read("Beatmap", p)), Read("Lightshow", lp))
               /\ IF lr.tag = "Err"
                  THEN /\ result' = lr
                       /\ pc' = "done"
                       /\ UNCHANGED <<idx, beatmaps>>
                  ELSE /\ beatmaps' = Insert(beatmaps, k, r.v)
                       /\ idx' = idx + 1
                       /\ UNCHANGED <<pc, result>>
    /\ UNCHANGED <<fs, infoDoc, info>>
    /\ UNCHANGED <<enumVars, fileVars, hexVars, codecVars>>

\* One turn of `for beatmap in info.difficulty_beatmaps.iter()`: the key is
\* computed, the file loaded, and the pair inserted; `?` returns the error.
LoadBeatmap ==
    /\ pc = "beatmaps"
    /\ idx <= Len(info.difficulty_beatmaps)
    /\ LET f == info.difficulty_beatmaps[idx].beatmap_data_filename
           k == BeatmapKey(f)
           p == Join(Dir, f)
           r == BeatmapFromFile(p)
       IN /\ reads' = Append(reads, Read("Beatmap", p))
          /\ IF r.tag = "Err"
             THEN /\ result' = r
                  /\ pc' = "done"
                  /\ UNCHANGED <<idx, beatmaps>>
             ELSE /\ beatmaps' = Insert(beatmaps, k, r.v)
                  /\ idx' = idx + 1
                  /\ UNCHANGED <<pc, result>>
    /\ UNCHANGED <<fs, infoDoc, info>>
    /\ UNCHANGED <<enumVars, fileVars, hexVars, codecVars>>

\* The mutant returns without waiting for the loop to end.
LoadAudio_Early ==
    /\ pc = "beatmaps"
    /\ LET p == Join(Dir, info.audio_data_filename)
           r == AudioFromFile(p)
       IN /\ reads' = Append(reads, Read("Audio", p))
          /\ pc' = "done"
          /\ IF r.tag = "Err"
             THEN result' = r
             ELSE result' = [tag |-> "Ok", info |-> info, audio |-> r.v,
                             beatmaps |-> beatmaps]
    /\ UNCHANGED <<fs, infoDoc, info, idx, beatmaps>>
    /\ UNCHANGED <<enumVars, fileVars, hexVars, codecVars>>

\* After the loop: Ok(BeatSaberMap { audio: Audio::from_file(..)?, info, beatmaps })
LoadAudio ==
    /\ pc = "beatmaps"
    /\ idx > Len(info.difficulty_beatmaps)
    /\ LET p == Join(Dir, info.audio_data_filename)
           r == AudioFromFile(p)
       IN /\ reads' = Append(reads, Read("Audio", p))
          /\ pc' = "done"
          /\ IF r.tag = "Err"
             THEN result' = r
             ELSE result' = [tag |-> "Ok", info |-> info, audio |-> r.v,
                             beatmaps |-> beatmaps]
    /\ UNCHANGED <<fs, infoDoc, info, idx, beatmaps>>
    /\ UNCHANGED <<enumVars, fileVars, hexVars, codecVars>>

Next == LoadInfo \/ LoadBeatmap \/ LoadAudio

Spec == Init /\ [][Next]_vars

(***************************************************************************)
(* The integer-coded enums of beatmap.rs.                                  *)
(***************************************************************************)
Enums == {"LineIndex", "LineLayer", "Color", "CutDirection", "MidAnchorMode",
          "ExecutionTime"}

\* The variants of each enum, in declaration order.
Variants(e) ==
    CASE e = "LineIndex" -> <<"FarLeft", "Left", "Right", "FarRight">>
      [] e = "LineLayer" -> <<"Bottom", "Middle", "Top">>
      [] e = "Color" -> <<"LeftSaber", "RightSaber">>
      [] e = "CutDirection" -> <<"Up", "Down", "Left", "Right", "UpLeft", "UpRight",
                                "DownLeft", "DownRight", "Any">>
      [] e = "MidAnchorMode" -> <<"Straight", "Clockwise", "CounterClockwise">>
      [] e = "ExecutionTime" -> <<"Early", "Late">>

\* The mutant takes the last variant.
DefaultVariant_Last(e) == Variants(e)[Len(Variants(e))]

\* The variant marked #[default].
DefaultVariant(e) ==
    CASE e = "LineIndex" -> "FarLeft"
      [] e = "LineLayer" -> "Bottom"
      [] e = "Color" -> "LeftSaber"
      [] e = "CutDirection" -> "Up"
      [] e = "MidAnchorMode" -> "Straight"
      [] e = "ExecutionTime" -> "Early"

\* A variant of crate::Error that carries the u8 it was given.
RangeErr(variant, n) == [tag |-> "Err", kind |-> variant, value |-> n]

LineIndexTryFrom(value) ==
    CASE value = 0 -> Ok("FarLeft")
      [] value = 1 -> Ok("Left")
      [] value = 2 -> Ok("Right")
      [] value = 3 -> Ok("FarRight")
      [] OTHER -> RangeErr("LineIndexTryFromU8", value)

LineLayerTryFrom(value) ==
    CASE value = 0 -> Ok("Bottom")
      [] value = 1 -> Ok("Middle")
      [] value = 2 -> Ok("Top")
      [] OTHER -> RangeErr("LineLayerTryFromU8", value)

\* The mutant wraps the value into the domain instead of rejecting it.
ColorTryFrom_Wrap(value) ==
    IF value % 2 = 0 THEN Ok("LeftSaber") ELSE Ok("RightSaber")

ColorTryFrom(value) ==
    CASE value = 0 -> Ok("LeftSaber")
      [] value = 1 -> Ok("RightSaber")
      [] OTHER -> RangeErr("ColorTryFromU8", value)

CutDirectionTryFrom(value) ==
    CASE value = 0 -> Ok("Up")
      [] value = 1 -> Ok("Down")
      [] value = 2 -> Ok("Left")
      [] value = 3 -> Ok("Right")
      [] value = 4 -> Ok("UpLeft")
      [] value = 5 -> Ok("UpRight")
      [] value = 6 -> Ok("DownLeft")
      [] value = 7 -> Ok("DownRight")
      [] value = 8 -> Ok("Any")
      [] OTHER -> RangeErr("CutDirectionTryFromU8", value)

MidAnchorModeTryFrom(value) ==
    CASE value = 0 -> Ok("Straight")
      [] value = 1 -> Ok("Clockwise")
      [] value = 2 -> Ok("CounterClockwise")
      [] OTHER -> RangeErr("MidAnchorModeTryFromU8", value)

ExecutionTimeTryFrom(value) ==
    CASE value = 0 -> Ok("Early")
      [] value = 1 -> Ok("Late")
      [] OTHER -> RangeErr("ExecutionTimeTryFromU8", value)

\* <E as TryFrom<u8>>::try_from
TryFromU8(e, value) ==
    CASE e = "LineIndex" -> LineIndexTryFrom(value)
      [] e = "LineLayer" -> LineLayerTryFrom(value)
      [] e = "Color" -> ColorTryFrom(value)
      [] e = "CutDirection" -> CutDirectionTryFrom(value)
      [] e = "MidAnchorMode" -> MidAnchorModeTryFrom(value)
      [] e = "ExecutionTime" -> ExecutionTimeTryFrom(value)

\* The mutant counts the variants from one.
IntoU8_OneBased(e, v) == CHOOSE i \in 1..Len(Variants(e)) : Variants(e)[i] = v

\* <E as Into<u8>>::into, `self as u8`: the discriminant of a fieldless enum
\* without explicit discriminants, which counts the variants from zero.
IntoU8(e, v) == (CHOOSE i \in 1..Len(Variants(e)) : Variants(e)[i] = v) - 1

DirIdle ==
    /\ fs = <<>> /\ infoDoc = None /\ pc = "idle" /\ info = None /\ idx = 1
    /\ beatmaps = <<>> /\ result = None /\ reads = <<>>

EnumInit ==
    /\ DirIdle
    /\ FileIdle
    /\ HexIdle
    /\ CodecIdle
    /\ \/ \E e \in Enums, n \in 0..U8Max : eArg = [enum |-> e, kind |-> "u8", v |-> n]
       \/ \E e \in Enums : \E v \in Range(Variants(e)) :
             eArg = [enum |-> e, kind |-> "variant", v |-> v]
    /\ eOut = None
    /\ eBack = None

\* E::try_from(n)
TryFromCall ==
    /\ eArg.kind = "u8" /\ eOut = None
    /\ eOut' = TryFromU8(eArg.enum, eArg.v)
    /\ UNCHANGED <<eArg, eBack, dirVars, fileVars, hexVars, codecVars>>

\* v.into()
IntoCall ==
    /\ eArg.kind = "variant" /\ eOut = None
    /\ eOut' = Ok(IntoU8(eArg.enum, eArg.v))
    /\ UNCHANGED <<eArg, eBack, dirVars, fileVars, hexVars, codecVars>>

\* E::try_from(n)?.into()
IntoBack ==
    /\ eArg.kind = "u8" /\ eOut.tag = "Ok" /\ eBack = None
    /\ eBack' = Ok(IntoU8(eArg.enum, eOut.v))
    /\ UNCHANGED <<eArg, eOut, dirVars, fileVars, hexVars, codecVars>>

\* E::try_from(v.into())
TryFromBack ==
    /\ eArg.kind = "variant" /\ eOut.tag = "Ok" /\ eBack = None
    /\ eBack' = TryFromU8(eArg.enum, eOut.v)
    /\ UNCHANGED <<eArg, eOut, dirVars, fileVars, hexVars, codecVars>>

EnumNext == TryFromCall \/ IntoCall \/ IntoBack \/ TryFromBack

EnumSpec == EnumInit /\ [][EnumNext]_vars

(***************************************************************************)
(* Beatmap::from_file on the enum-coded fields of a beatmap file.          *)
(***************************************************************************)
EnumFields == {"line_index", "line_layer", "color", "cut_direction",
               "mid_anchor_mode", "execution_time"}

\* The type of each enum-coded field (GridPosition, ColorNoteData, ArcData,
\* SpawnRotationData).
FieldEnum(name) ==
    CASE name = "line_index" -> "LineIndex"
      [] name = "line_layer" -> "LineLayer"
      [] name = "color" -> "Color"
      [] name = "cut_direction" -> "CutDirection"
      [] name = "mid_anchor_mode" -> "MidAnchorMode"
      [] name = "execution_time" -> "ExecutionTime"

\* The integers a field of the file may hold.
RawInts == {0 - 1} \cup (0..MaxRaw) \cup {U8Max, U8Max + 1}

\* A field of the file: its name and, when the key is present, its integer.
FieldEntries ==
    [name : EnumFields, present : {TRUE}, raw : RawInts]
        \cup [name : EnumFields, present : {FALSE}, raw : {0}]

\* An error of a from_file call: Error::Io or Error::SerdeJson with its message.
LoadErr(kind, msg) == [tag |-> "Err", kind |-> kind, msg |-> msg]

\* The mutant falls back to the default variant when the conversion fails.
DecodeField_Lenient(f) ==
    IF ~f.present THEN Ok(DefaultVariant(FieldEnum(f.name)))
    ELSE IF f.raw \notin 0..U8Max
         THEN LoadErr("SerdeJson", [error |-> "InvalidU8", value |-> f.raw])
    ELSE LET r == TryFromU8(FieldEnum(f.name), f.raw)
         IN IF r.tag = "Err" THEN Ok(DefaultVariant(FieldEnum(f.name))) ELSE r

\* #[serde(try_from = "u8")] under #[serde(default)]: an absent key takes the
\* default; a present one is decoded as u8 and handed to try_from, whose error
\* becomes the message of a serde_json::Error (de::Error::custom).
DecodeField(f) ==
    IF ~f.present THEN Ok(DefaultVariant(FieldEnum(f.name)))
    ELSE IF f.raw \notin 0..U8Max
         THEN LoadErr("SerdeJson", [error |-> "InvalidU8", value |-> f.raw])
    ELSE LET r == TryFromU8(FieldEnum(f.name), f.raw)
         IN IF r.tag = "Err"
            THEN LoadErr("SerdeJson", [error |-> r.kind, value |-> r.value])
            ELSE r

\* serde_json::from_str::<Beatmap>: the fields are decoded one after another
\* and the first failure is returned.
RECURSIVE BeatmapFromStr(_)
BeatmapFromStr(fields) ==
    IF fields = <<>> THEN Ok(<<>>)
    ELSE LET r == DecodeField(Head(fields))
         IN IF r.tag = "Err" THEN r
            ELSE LET rest == BeatmapFromStr(Tail(fields))
                 IN IF rest.tag = "Err" THEN rest ELSE Ok(<<r.v>> \o rest.v)

FileInit ==
    /\ DirIdle
    /\ EnumIdle
    /\ HexIdle
    /\ CodecIdle
    /\ \/ bmFile = [status |-> "missing", fields |-> <<>>]
       \/ \E fields \in SeqsUpTo(FieldEntries, MaxFields) :
             bmFile = [status |-> "ok", fields |-> fields]
    /\ bmOut = None

\* Beatmap::from_file(path): Ok(serde_json::from_str(&fs::read_to_string(path)?)?)
BeatmapLoad ==
    /\ bmOut = None
    /\ bmOut' = IF bmFile.status = "missing"
                THEN LoadErr("Io", [error |-> "NotFound", value |-> 0])
                ELSE BeatmapFromStr(bmFile.fields)
    /\ UNCHANGED <<bmFile, dirVars, enumVars, hexVars, codecVars>>

FileNext == BeatmapLoad

FileSpec == FileInit /\ [][FileNext]_vars

(***************************************************************************)
(* The hex colour codec of hex.rs.  A u32 is held in two 16-bit limbs, hi  *)
(* and lo, and the arithmetic of formatting and parsing is done on them.   *)
(***************************************************************************)
Limb == 256 * 256

U32(hi, lo) == [hi |-> hi, lo |-> lo]

HexUpperDigits == <<"0", "1", "2", "3", "4", "5", "6", "7", "8", "9",
                    "A", "B", "C", "D", "E", "F">>
HexLowerDigits == <<"0", "1", "2", "3", "4", "5", "6", "7", "8", "9",
                    "a", "b", "c", "d", "e", "f">>

\* The mutant formats with {:x}.
UpperHexDigit_Lower(d) == HexLowerDigits[d + 1]
\* fmt::UpperHex: the character of one hexadecimal digit.
UpperHexDigit(d) == HexUpperDigits[d + 1]

\* fmt::UpperHex for u32: the digits of x, least significant first, by
\* repeated x % 16 and x / 16 until x is 0.
RECURSIVE FmtUpperHex(_)
FmtUpperHex(x) ==
    LET d == x.lo % 16
        q == U32(x.hi \div 16, (x.lo \div 16) + (x.hi % 16) * (Limb \div 16))
    IN IF q = U32(0, 0) THEN <<UpperHexDigit(d)>>
       ELSE FmtUpperHex(q) \o <<UpperHexDigit(d)>>

RECURSIVE Zeros(_)
Zeros(n) == IF n <= 0 THEN <<>> ELSE <<"0">> \o Zeros(n - 1)

\* format!("{v:#010X}"): the prefix 0x, then the digits padded with zeros to
\* a total width of 10.
FormatAlt010X(v) ==
    LET digits == FmtUpperHex(v)
    IN <<"0", "x">> \o Zeros(10 - 2 - Len(digits)) \o digits

\* The mutant trims the characters '0' and 'x' instead of the prefix "0x".
RECURSIVE TrimStart0x_Chars(_)
TrimStart0x_Chars(t) ==
    IF Len(t) >= 1 /\ t[1] \in {"0", "x"} THEN TrimStart0x_Chars(Tail(t)) ELSE t

\* str::trim_start_matches("0x"): every leading repetition of 0x is removed.
RECURSIVE TrimStart0x(_)
TrimStart0x(t) ==
    IF Len(t) >= 2 /\ t[1] = "0" /\ t[2] = "x"
    THEN TrimStart0x(SubSeq(t, 3, Len(t)))
    ELSE t

\* hex::serialize
HexSerialize(v) == <<"#">> \o TrimStart0x(FormatAlt010X(v))

\* str::trim_start_matches('#'): every leading '#' is removed.
RECURSIVE TrimStartHash(_)
TrimStartHash(t) ==
    IF Len(t) >= 1 /\ t[1] = "#" THEN TrimStartHash(Tail(t)) ELSE t

\* The mutant knows the upper-case letters only.
ToDigit16_UpperOnly(c) ==
    IF \E d \in 0..15 : HexUpperDigits[d + 1] = c
    THEN Some(CHOOSE d \in 0..15 : HexUpperDigits[d + 1] = c)
    ELSE None

\* char::to_digit(16): 0-9, a-f and A-F are digits.
ToDigit16(c) ==
    IF \E d \in 0..15 : HexUpperDigits[d + 1] = c
    THEN Some(CHOOSE d \in 0..15 : HexUpperDigits[d + 1] = c)
    ELSE IF \E d \in 10..15 : HexLowerDigits[d + 1] = c
    THEN Some(CHOOSE d \in 10..15 : HexLowerDigits[d + 1] = c)
    ELSE None

ParseErr(kind) == [tag |-> "Err", kind |-> kind]

\* The mutant multiplies with wrapping_mul: the bits shifted out of the u32
\* are dropped.
RECURSIVE ParseDigits16_Wrapping(_, _)
ParseDigits16_Wrapping(digits, acc) ==
    IF digits = <<>> THEN Ok(acc)
    ELSE LET d == ToDigit16(Head(digits))
             hi == (acc.hi * 16 + (acc.lo \div (Limb \div 16))) % Limb
             lo == (acc.lo % (Limb \div 16)) * 16 + (IF d.tag = "Some" THEN d.v ELSE 0)
         IN IF d.tag = "None" THEN ParseErr("InvalidDigit")
            ELSE ParseDigits16_Wrapping(Tail(digits), U32(hi, lo))

\* The digit loop of u32::from_str_radix: result = result * 16 + digit, an
\* InvalidDigit error on a character that is no digit and a PosOverflow
\* error when the result leaves u32.
RECURSIVE ParseDigits16(_, _)
ParseDigits16(digits, acc) ==
    IF digits = <<>> THEN Ok(acc)
    ELSE LET d == ToDigit16(Head(digits))
             hi == acc.hi * 16 + (acc.lo \div (Limb \div 16))
             lo == (acc.lo % (Limb \div 16)) * 16 + (IF d.tag = "Some" THEN d.v ELSE 0)
         IN IF d.tag = "None" THEN ParseErr("InvalidDigit")
            ELSE IF hi >= Limb THEN ParseErr("PosOverflow")
            ELSE ParseDigits16(Tail(digits), U32(hi, lo))

\* u32::from_str_radix(src, 16): the empty text is an error, a lone sign is
\* an error, a leading '+' is skipped, and '-' is no sign of an unsigned type.
FromStrRadix16(src) ==
    IF src = <<>> THEN ParseErr("Empty")
    ELSE IF Len(src) = 1 /\ src[1] \in {"+", "-"} THEN ParseErr("InvalidDigit")
    ELSE IF src[1] = "+" THEN ParseDigits16(Tail(src), U32(0, 0))
    ELSE ParseDigits16(src, U32(0, 0))

\* E::invalid_value(Unexpected::Str(&v), &EXPECTING)
HexErr(v) == [tag |-> "Err", kind |-> "invalid_value", text |-> v]

\* HexVisitor::visit_str
VisitStr(v) ==
    LET without_hash == TrimStartHash(v)
        parsed == FromStrRadix16(without_hash)
    IN IF parsed.tag = "Err" THEN HexErr(v) ELSE Ok(parsed.v)

\* The spellings of a text in one case.
LowerChar(c) ==
    IF \E d \in 10..15 : HexUpperDigits[d + 1] = c
    THEN HexLowerDigits[(CHOOSE d \in 10..15 : HexUpperDigits[d + 1] = c) + 1]
    ELSE c
UpperChar(c) ==
    IF \E d \in 10..15 : HexLowerDigits[d + 1] = c
    THEN HexUpperDigits[(CHOOSE d \in 10..15 : HexLowerDigits[d + 1] = c) + 1]
    ELSE c
ToLower(t) == [i \in 1..Len(t) |-> LowerChar(t[i])]
ToUpper(t) == [i \in 1..Len(t) |-> UpperChar(t[i])]

\* The u32 values and the texts the codec is run on.
HexValues ==
    {U32(hi, lo) : hi \in {0, 20, 10382, Limb - 1},
                   lo \in (0..MaxHexLow) \cup {255, 256, 4096, 5375, 54015, Limb - 1}}

HexAlphabet == {"#", "+", "-", "0", "a", "F", "g"}

HexTexts ==
    SeqsUpTo(HexAlphabet, MaxHexLen) \cup
    {<<"#", "2", "8", "8", "E", "D", "2", "F", "F">>,
     <<"#", "2", "8", "8", "e", "d", "2", "f", "f">>,
     <<"#", "#", "0", "0", "1", "4", "1", "4", "F", "F">>,
     <<"+", "F", "F", "F", "F", "F", "F", "F", "F">>,
     <<"#", "F", "F", "F", "F", "F", "F", "F", "F">>,
     <<"#", "1", "0", "0", "0", "0", "0", "0", "0", "0">>,
     <<"f", "f", "f", "f", "f", "f", "f", "f", "f">>,
     <<"0", "0", "0", "0", "0", "0", "0", "0", "0", "F", "F">>}

HexInit ==
    /\ DirIdle
    /\ EnumIdle
    /\ FileIdle
    /\ CodecIdle
    /\ \/ \E v \in HexValues : hArg = [kind |-> "u32", v |-> v]
       \/ \E t \in HexTexts : hArg = [kind |-> "str", v |-> t]
    /\ hOut = None
    /\ hBack = None
    /\ hCases = None

\* hex::serialize(&v, serializer)
SerializeHex ==
    /\ hArg.kind = "u32" /\ hOut = None
    /\ hOut' = Ok(HexSerialize(hArg.v))
    /\ UNCHANGED <<hArg, hBack, hCases, dirVars, enumVars, fileVars, codecVars>>

\* hex::deserialize of the text just serialized
DeserializeBack ==
    /\ hArg.kind = "u32" /\ hOut.tag = "Ok" /\ hBack = None
    /\ hBack' = VisitStr(hOut.v)
    /\ UNCHANGED <<hArg, hOut, hCases, dirVars, enumVars, fileVars, codecVars>>

\* hex::deserialize(deserializer) on a text
DeserializeHex ==
    /\ hArg.kind = "str" /\ hOut = None
    /\ hOut' = VisitStr(hArg.v)
    /\ UNCHANGED <<hArg, hBack, hCases, dirVars, enumVars, fileVars, codecVars>>

\* hex::serialize of the value just deserialized
SerializeBack ==
    /\ hArg.kind = "str" /\ hOut.tag = "Ok" /\ hBack = None
    /\ hBack' = Ok(HexSerialize(hOut.v))
    /\ UNCHANGED <<hArg, hOut, hCases, dirVars, enumVars, fileVars, codecVars>>

\* hex::deserialize on the lower-case and the upper-case spelling of a text
DeserializeCases ==
    /\ hArg.kind = "str" /\ hOut.tag # "None" /\ hCases = None
    /\ hCases' = [lower |-> VisitStr(ToLower(hArg.v)),
                  upper |-> VisitStr(ToUpper(hArg.v))]
    /\ UNCHANGED <<hArg, hOut, hBack, dirVars, enumVars, fileVars, codecVars>>

HexNext ==
    SerializeHex \/ DeserializeBack \/ DeserializeHex \/ SerializeBack
        \/ DeserializeCases

HexSpec == HexInit /\ [][HexNext]_vars

(***************************************************************************)
(* The JSON codec: the Serialize and Deserialize implementations derived   *)
(* for the structs of audio.rs, info.rs and beatmap.rs, and serde_json's   *)
(* writer and reader under them.  A struct value is the tuple of its       *)
(* fields in declaration order, a #[serde(flatten)] field standing as the  *)
(* fields it spreads into its parent; a document is the sequence of its    *)
(* lexemes, the white space that to_string_pretty lays between them left   *)
(* out.  A finite float is counted in tenths.                              *)
(***************************************************************************)

\* The fields of a struct in declaration order, each under the key it has on
\* the wire (rename, rename_all = "camelCase") and with its type.  info::Audio
\* is InfoAudio here.
Fields(name) ==
    CASE name = "Audio" ->
          <<[key |-> "version", ty |-> [k |-> "String", n |-> ""]],
            [key |-> "songChecksum", ty |-> [k |-> "String", n |-> ""]],
            [key |-> "songSampleCount", ty |-> [k |-> "u32", n |-> ""]],
            [key |-> "songFrequency", ty |-> [k |-> "u32", n |-> ""]],
            [key |-> "bpmData", ty |-> [k |-> "Vec", n |-> "BpmData"]],
            [key |-> "lufsData", ty |-> [k |-> "Vec", n |-> "LufsData"]]>>
      [] name = "BpmData" ->
          <<[key |-> "si", ty |-> [k |-> "usize", n |-> ""]],
            [key |-> "ei", ty |-> [k |-> "usize", n |-> ""]],
            [key |-> "sb", ty |-> [k |-> "f64", n |-> ""]],
            [key |-> "eb", ty |-> [k |-> "f64", n |-> ""]]>>
      [] name = "LufsData" ->
          <<[key |-> "si", ty |-> [k |-> "usize", n |-> ""]],
            [key |-> "ei", ty |-> [k |-> "usize", n |-> ""]],
            [key |-> "l", ty |-> [k |-> "usize", n |-> ""]]>>
      [] name = "Info" ->
          <<[key |-> "version", ty |-> [k |-> "String", n |-> ""]],
            [key |-> "song", ty |-> [k |-> "struct", n |-> "Song"]],
            [key |-> "audio", ty |-> [k |-> "struct", n |-> "InfoAudio"]],
            [key |-> "songPreviewFilename", ty |-> [k |-> "PathBuf", n |-> ""]],
            [key |-> "coverImageFilename", ty |-> [k |-> "PathBuf", n |-> ""]],
            [key |-> "environmentNames", ty |-> [k |-> "VecString", n |-> ""]],
            [key |-> "colorSchemes", ty |-> [k |-> "Vec", n |-> "ColorScheme"]],
            [key |-> "difficultyBeatmaps", ty |-> [k |-> "Vec", n |-> "DifficultyBeatmap"]]>>
      [] name = "Song" ->
          <<[key |-> "title", ty |-> [k |-> "String", n |-> ""]],
            [key |-> "subTitle", ty |-> [k |-> "String", n |-> ""]],
            [key |-> "author", ty |-> [k |-> "String", n |-> ""]]>>
      [] name = "InfoAudio" ->
          <<[key |-> "songFilename", ty |-> [k |-> "PathBuf", n |-> ""]],
            [key |-> "songDuration", ty |-> [k |-> "f64", n |-> ""]],
            [key |-> "audioDataFilename", ty |-> [k |-> "PathBuf", n |-> ""]],
            [key |-> "bpm", ty |-> [k |-> "f64", n |-> ""]],
            [key |-> "lufs", ty |-> [k |-> "f64", n |-> ""]],
            [key |-> "previewStartTime", ty |-> [k |-> "f64", n |-> ""]],
            [key |-> "previewDuration", ty |-> [k |-> "f64", n |-> ""]]>>
      [] name = "ColorScheme" ->
          <<[key |-> "useOverride", ty |-> [k |-> "bool", n |-> ""]],
            [key |-> "colorSchemeName", ty |-> [k |-> "String", n |-> ""]],
            [key |-> "saberAColor", ty |-> [k |-> "hex", n |-> ""]],
            [key |-> "saberBColor", ty |-> [k |-> "hex", n |-> ""]],
            [key |-> "obstaclesColor", ty |-> [k |-> "hex", n |-> ""]],
            [key |-> "environmentColor0", ty |-> [k |-> "hex", n |-> ""]],
            [key |-> "environmentColor1", ty |-> [k |-> "hex", n |-> ""]],
            [key |-> "environmentColor0Boost", ty |-> [k |-> "hex", n |-> ""]],
            [key |-> "environmentColor1Boost", ty |-> [k |-> "hex", n |-> ""]]>>
      [] name = "DifficultyBeatmap" ->
          <<[key |-> "characteristic", ty |-> [k |-> "label", n |-> "Characteristic"]],
            [key |-> "difficulty", ty |-> [k |-> "label", n |-> "Difficulty"]],
            [key |-> "beatmapAuthors", ty |-> [k |-> "struct", n |-> "BeatmapAuthors"]],
            [key |-> "environmentNameIdx", ty |-> [k |-> "usize", n |-> ""]],
            [key |-> "beatmapColorSchemeIdx", ty |-> [k |-> "usize", n |-> ""]],
            [key |-> "noteJumpMovementSpeed", ty |-> [k |-> "u32", n |-> ""]],
            [key |-> "noteJumpStartBeatOffset", ty |-> [k |-> "f32", n |-> ""]],
            [key |-> "beatmapDataFilename", ty |-> [k |-> "PathBuf", n |-> ""]],
            [key |-> "lightshowDataFilename", ty |-> [k |-> "PathBuf", n |-> ""]]>>
      [] name = "BeatmapAuthors" ->
          <<[key |-> "mappers", ty |-> [k |-> "VecString", n |-> ""]],
            [key |-> "lighters", ty |-> [k |-> "VecString", n |-> ""]]>>
      [] name = "Beatmap" ->
          <<[key |-> "version", ty |-> [k |-> "String", n |-> ""]],
            [key |-> "colorNotes", ty |-> [k |-> "Vec", n |-> "Object"]],
            [key |-> "colorNotesData", ty |-> [k |-> "Vec", n |-> "ColorNoteData"]],
            [key |-> "bombNotes", ty |-> [k |-> "Vec", n |-> "Object"]],
            [key |-> "bombNotesData", ty |-> [k |-> "Vec", n |-> "GridPosition"]],
            [key |-> "obstacles", ty |-> [k |-> "Vec", n |-> "Object"]],
            [key |-> "obstaclesData", ty |-> [k |-> "Vec", n |-> "ObstacleData"]],
            [key |-> "arcs", ty |-> [k |-> "Vec", n |-> "Arc"]],
            [key |-> "arcsData", ty |-> [k |-> "Vec", n |-> "ArcData"]],
            [key |-> "chains", ty |-> [k |-> "Vec", n |-> "Chain"]],
            [key |-> "chainsData", ty |-> [k |-> "Vec", n |-> "ChainData"]],
            [key |-> "spawnRotations", ty |-> [k |-> "Vec", n |-> "SpawnRotation"]],
            [key |-> "spawnRotationsData", ty |-> [k |-> "Vec", n |-> "SpawnRotationData"]]>>
      [] name = "Object" ->
          <<[key |-> "b", ty |-> [k |-> "f64", n |-> ""]],
            [key |-> "r", ty |-> [k |-> "i16", n |-> ""]],
            [key |-> "i", ty |-> [k |-> "usize", n |-> ""]]>>
      [] name = "ColorNoteData" ->
          <<[key |-> "x", ty |-> [k |-> "enum8", n |-> "LineIndex"]],
            [key |-> "y", ty |-> [k |-> "enum8", n |-> "LineLayer"]],
            [key |-> "c", ty |-> [k |-> "enum8", n |-> "Color"]],
            [key |-> "d", ty |-> [k |-> "enum8", n |-> "CutDirection"]],
            [key |-> "a", ty |-> [k |-> "i16", n |-> ""]]>>
      [] name = "GridPosition" ->
          <<[key |-> "x", ty |-> [k |-> "enum8", n |-> "LineIndex"]],
            [key |-> "y", ty |-> [k |-> "enum8", n |-> "LineLayer"]]>>
      [] name = "ObstacleData" ->
          <<[key |-> "d", ty |-> [k |-> "f64", n |-> ""]],
            [key |-> "x", ty |-> [k |-> "enum8", n |-> "LineIndex"]],
            [key |-> "y", ty |-> [k |-> "enum8", n |-> "LineLayer"]],
            [key |-> "w", ty |-> [k |-> "i8", n |-> ""]],
            [key |-> "h", ty |-> [k |-> "i8", n |-> ""]]>>
      [] name = "Arc" ->
          <<[key |-> "hb", ty |-> [k |-> "f64", n |-> ""]],
            [key |-> "tb", ty |-> [k |-> "f64", n |-> ""]],
            [key |-> "hr", ty |-> [k |-> "i16", n |-> ""]],
            [key |-> "tr", ty |-> [k |-> "i16", n |-> ""]],
            [key |-> "hi", ty |-> [k |-> "usize", n |-> ""]],
            [key |-> "ti", ty |-> [k |-> "usize", n |-> ""]],
            [key |-> "ai", ty |-> [k |-> "usize", n |-> ""]]>>
      [] name = "ArcData" ->
          <<[key |-> "m", ty |-> [k |-> "f64", n |-> ""]],
            [key |-> "tm", ty |-> [k |-> "f64", n |-> ""]],
            [key |-> "a", ty |-> [k |-> "enum8", n |-> "MidAnchorMode"]]>>
      [] name = "Chain" ->
          <<[key |-> "hb", ty |-> [k |-> "f64", n |-> ""]],
            [key |-> "tb", ty |-> [k |-> "f64", n |-> ""]],
            [key |-> "hr", ty |-> [k |-> "i16", n |-> ""]],
            [key |-> "tr", ty |-> [k |-> "i16", n |-> ""]],
            [key |-> "i", ty |-> [k |-> "usize", n |-> ""]],
            [key |-> "ci", ty |-> [k |-> "usize", n |-> ""]]>>
      [] name = "ChainData" ->
          <<[key |-> "tx", ty |-> [k |-> "enum8", n |-> "LineIndex"]],
            [key |-> "ty", ty |-> [k |-> "enum8", n |-> "LineLayer"]],
            [key |-> "c", ty |-> [k |-> "u8", n |-> ""]],
            [key |-> "s", ty |-> [k |-> "f64", n |-> ""]]>>
      [] name = "SpawnRotation" ->
          <<[key |-> "b", ty |-> [k |-> "f64", n |-> ""]],
            [key |-> "i", ty |-> [k |-> "usize", n |-> ""]]>>
      [] name = "SpawnRotationData" ->
          <<[key |-> "t", ty |-> [k |-> "enum8", n |-> "ExecutionTime"]],
            [key |-> "r", ty |-> [k |-> "f64", n |-> ""]]>>

\* The mutant takes the Rust names of the variants for their labels.
Labels_RustNames(e) ==
    CASE e = "Characteristic" ->
            <<<<"S", "t", "a", "n", "d", "a", "r", "d">>,
              <<"N", "o", "A", "r", "r", "o", "w", "s">>,
              <<"O", "n", "e", "S", "a", "b", "e", "r">>,
              <<"T", "h", "r", "e", "e", "S", "i", "x", "t", "y", "D", "e", "g", "r", "e", "e">>,
              <<"N", "i", "n", "e", "t", "y", "D", "e", "g", "r", "e", "e">>,
              <<"L", "e", "g", "a", "c", "y">>>>
      [] e = "Difficulty" ->
            <<<<"E", "a", "s", "y">>,
              <<"N", "o", "r", "m", "a", "l">>,
              <<"H", "a", "r", "d">>,
              <<"E", "x", "p", "e", "r", "t">>,
              <<"E", "x", "p", "e", "r", "t", "P", "l", "u", "s">>>>

\* The labels of the string-coded enums of info.rs, in declaration order:
\* the variant's name, or its #[serde(rename)].
Labels(e) ==
    CASE e = "Characteristic" ->
            <<<<"S", "t", "a", "n", "d", "a", "r", "d">>,
              <<"N", "o", "A", "r", "r", "o", "w", "s">>,
              <<"O", "n", "e", "S", "a", "b", "e", "r">>,
              <<"3", "6", "0", "D", "e", "g", "r", "e", "e">>,
              <<"9", "0", "D", "e", "g", "r", "e", "e">>,
              <<"L", "e", "g", "a", "c", "y">>>>
      [] e = "Difficulty" ->
            <<<<"E", "a", "s", "y">>,
              <<"N", "o", "r", "m", "a", "l">>,
              <<"H", "a", "r", "d">>,
              <<"E", "x", "p", "e", "r", "t">>,
              <<"E", "x", "p", "e", "r", "t", "P", "l", "u", "s">>>>

\* The variants of the string-coded enums, by their Rust names.
LabelVariants(e) ==
    CASE e = "Characteristic" ->
            <<"Standard", "NoArrows", "OneSaber", "ThreeSixtyDegree", "NinetyDegree",
              "Legacy">>
      [] e = "Difficulty" -> <<"Easy", "Normal", "Hard", "Expert", "ExpertPlus">>

\* The variant marked #[default].
DefaultLabelVariant(e) ==
    CASE e = "Characteristic" -> "Standard"
      [] e = "Difficulty" -> "Normal"

\* A float: finite and counted in tenths, or one of the values that are no
\* number.
Finite(t) == [c |-> "finite", t |-> t]
NonFinite(c) == [c |-> c, t |-> 0]

Str4_0_0 == <<"4", ".", "0", ".", "0">>
StrSongOgg == <<"s", "o", "n", "g", ".", "o", "g", "g">>
StrCoverPng == <<"c", "o", "v", "e", "r", ".", "p", "n", "g">>
StrBPMInfoDat == <<"B", "P", "M", "I", "n", "f", "o", ".", "d", "a", "t">>

\* Default::default() of a field type and of a struct: the four written
\* impls, and the derived ones, which take every field's default.
RECURSIVE DefaultOf(_), StructDefault(_)
DefaultOf(ty) ==
    CASE ty.k \in {"String", "PathBuf", "Vec", "VecString"} -> <<>>
      [] ty.k \in {"u32", "usize", "u8", "i16", "i8"} -> 0
      [] ty.k \in {"f64", "f32"} -> Finite(0)
      [] ty.k = "bool" -> FALSE
      [] ty.k = "hex" -> U32(0, 0)
      [] ty.k = "enum8" -> DefaultVariant(ty.n)
      [] ty.k = "label" -> DefaultLabelVariant(ty.n)
      [] ty.k = "struct" -> StructDefault(ty.n)

StructDefault(name) ==
    CASE name = "Audio" ->
            <<Str4_0_0, DefaultOf([k |-> "String", n |-> ""]),
              DefaultOf([k |-> "u32", n |-> ""]), DefaultOf([k |-> "u32", n |-> ""]),
              DefaultOf([k |-> "Vec", n |-> "BpmData"]),
              DefaultOf([k |-> "Vec", n |-> "LufsData"])>>
      [] name = "Info" ->
            <<Str4_0_0, DefaultOf([k |-> "struct", n |-> "Song"]),
              DefaultOf([k |-> "struct", n |-> "InfoAudio"]),
              StrSongOgg, StrCoverPng,
              DefaultOf([k |-> "VecString", n |-> ""]),
              DefaultOf([k |-> "Vec", n |-> "ColorScheme"]),
              DefaultOf([k |-> "Vec", n |-> "DifficultyBeatmap"])>>
      [] name = "InfoAudio" ->
            <<StrSongOgg, DefaultOf([k |-> "f64", n |-> ""]), StrBPMInfoDat,
              DefaultOf([k |-> "f64", n |-> ""]), DefaultOf([k |-> "f64", n |-> ""]),
              DefaultOf([k |-> "f64", n |-> ""]), DefaultOf([k |-> "f64", n |-> ""])>>
      [] name = "Beatmap" ->
            <<Str4_0_0>> \o [i \in 1..(Len(Fields("Beatmap")) - 1) |->
                                DefaultOf(Fields("Beatmap")[i + 1].ty)]
      [] OTHER -> [i \in 1..Len(Fields(name)) |-> DefaultOf(Fields(name)[i].ty)]


(***************************************************************************)
(* serde_json's writer.  A lexeme is a sequence of strings: one character  *)
(* each, a key of the schema standing as one string between its quotes.    *)
(***************************************************************************)
DecDigits == <<"0", "1", "2", "3", "4", "5", "6", "7", "8", "9">>

Quote == "\""
Backslash == "\\"

\* format_escaped_str_contents: a quote and a backslash are written behind a
\* backslash.
RECURSIVE Escape(_)
Escape(s) ==
    IF s = <<>> THEN <<>>
    ELSE IF Head(s) \in {Quote, Backslash}
         THEN <<Backslash, Head(s)>> \o Escape(Tail(s))
         ELSE <<Head(s)>> \o Escape(Tail(s))

\* Serializer::serialize_str
StrLexeme(s) == <<Quote>> \o Escape(s) \o <<Quote>>

\* A key of a struct field, as SerializeStruct::serialize_field writes it.
KeyLexeme(key) == <<Quote, key, Quote>>

\* itoa: the decimal digits of n >= 0.
RECURSIVE Digits(_)
Digits(n) ==
    IF n < 10 THEN <<DecDigits[n + 1]>>
    ELSE Digits(n \div 10) \o <<DecDigits[(n % 10) + 1]>>

\* Serializer::serialize_u32, _u64, _u8, _i16, _i8
IntLexeme(n) == IF n < 0 THEN <<"-">> \o Digits(0 - n) ELSE Digits(n)

NullLexeme == <<"null">>

\* The mutant writes the whole part of a float and drops its tenths.
FloatLexeme_Whole(x) ==
    IF x.c # "finite" THEN NullLexeme
    ELSE IF x.t < 0
         THEN <<"-">> \o Digits((0 - x.t) \div 10)
         ELSE Digits(x.t \div 10)

\* Serializer::serialize_f64 and _f32: null for NaN and the infinities, the
\* shortest decimal text that reads back as the value otherwise.
FloatLexeme(x) ==
    IF x.c # "finite" THEN NullLexeme
    ELSE IF x.t < 0
         THEN <<"-">> \o Digits((0 - x.t) \div 10) \o <<".">> \o Digits((0 - x.t) % 10)
         ELSE Digits(x.t \div 10) \o <<".">> \o Digits(x.t % 10)

\* Serializer::serialize_bool
BoolLexeme(b) == IF b THEN <<"true">> ELSE <<"false">>

\* The derived Serialize of Characteristic and Difficulty: serialize_unit_variant
\* with the variant's label.
LabelOf(e, v) ==
    Labels(e)[CHOOSE i \in 1..Len(Labels(e)) : LabelVariants(e)[i] = v]

\* The derived Serialize of the structs, written by serde_json's
\* serializer.  Write leaves out the fields named in omit, pairs of a struct
\* name and a key: the serializer omits none.
RECURSIVE WriteValue(_, _, _), WriteStruct(_, _, _), WriteFields(_, _, _, _, _),
          WriteItems(_, _, _, _)
\* The mutant leaves out a field that holds an empty string or list.
RECURSIVE WriteFields_SkipEmpty(_, _, _, _, _)
WriteFields_SkipEmpty(name, v, i, first, omit) ==
    IF i > Len(Fields(name)) THEN <<>>
    ELSE IF <<name, Fields(name)[i].key>> \in omit
            \/ (Fields(name)[i].ty.k \in {"String", "PathBuf", "Vec", "VecString"}
                    /\ v[i] = <<>>)
         THEN WriteFields_SkipEmpty(name, v, i + 1, first, omit)
         ELSE (IF first THEN <<>> ELSE <<<<",">>>>)
                \o <<KeyLexeme(Fields(name)[i].key), <<":">>>>
                \o WriteValue(Fields(name)[i].ty, v[i], omit)
                \o WriteFields_SkipEmpty(name, v, i + 1, FALSE, omit)

WriteValue(ty, v, omit) ==
    CASE ty.k \in {"String", "PathBuf"} -> <<StrLexeme(v)>>
      [] ty.k \in {"u32", "usize", "u8", "i16", "i8"} -> <<IntLexeme(v)>>
      [] ty.k \in {"f64", "f32"} -> <<FloatLexeme(v)>>
      [] ty.k = "bool" -> <<BoolLexeme(v)>>
      [] ty.k = "hex" -> <<StrLexeme(HexSerialize(v))>>
      [] ty.k = "enum8" -> <<IntLexeme(IntoU8(ty.n, v))>>
      [] ty.k = "label" -> <<StrLexeme(LabelOf(ty.n, v))>>
      [] ty.k = "struct" -> WriteStruct(ty.n, v, omit)
      [] ty.k = "Vec" ->
            <<<<"[">>>> \o WriteItems([k |-> "struct", n |-> ty.n], v, 1, omit)
                \o <<<<"]">>>>
      [] ty.k = "VecString" ->
            <<<<"[">>>> \o WriteItems([k |-> "String", n |-> ""], v, 1, omit)
                \o <<<<"]">>>>

WriteItems(ty, items, i, omit) ==
    IF i > Len(items) THEN <<>>
    ELSE (IF i > 1 THEN <<<<",">>>> ELSE <<>>)
            \o WriteValue(ty, items[i], omit) \o WriteItems(ty, items, i + 1, omit)

WriteFields(name, v, i, first, omit) ==
    IF i > Len(Fields(name)) THEN <<>>
    ELSE IF <<name, Fields(name)[i].key>> \in omit
         THEN WriteFields(name, v, i + 1, first, omit)
         ELSE (IF first THEN <<>> ELSE <<<<",">>>>)
                \o <<KeyLexeme(Fields(name)[i].key), <<":">>>>
                \o WriteValue(Fields(name)[i].ty, v[i], omit)
                \o WriteFields(name, v, i + 1, FALSE, omit)

WriteStruct(name, v, omit) ==
    <<<<"{">>>> \o WriteFields(name, v, 1, TRUE, omit) \o <<<<"}">>>>

\* serde_json::to_string_pretty(&value)
JsonToString(name, v) == WriteStruct(name, v, {})

(***************************************************************************)
(* serde_json's reader and the derived Deserialize.                        *)
(***************************************************************************)
IsStrLexeme(x) == Len(x) >= 2 /\ x[1] = Quote /\ x[Len(x)] = Quote
IsNumLexeme(x) == Len(x) >= 1 /\ (x[1] = "-" \/ x[1] \in Range(DecDigits))
IsIntLexeme(x) == IsNumLexeme(x) /\ "." \notin Range(x)

\* parse_str: the text between the quotes, each escape read as the character
\* behind its backslash.
RECURSIVE Unescape(_)
Unescape(s) ==
    IF s = <<>> THEN <<>>
    ELSE IF Head(s) = Backslash /\ Len(s) >= 2
         THEN <<s[2]>> \o Unescape(SubSeq(s, 3, Len(s)))
         ELSE <<Head(s)>> \o Unescape(Tail(s))

StrOf(x) == Unescape(SubSeq(x, 2, Len(x) - 1))

DigitValue(c) == (CHOOSE i \in 1..Len(DecDigits) : DecDigits[i] = c) - 1

RECURSIVE DigitsValue(_, _)
DigitsValue(s, acc) ==
    IF s = <<>> THEN acc ELSE DigitsValue(Tail(s), acc * 10 + DigitValue(Head(s)))

\* parse_integer: the value of an integer lexeme.
IntOf(x) ==
    IF x[1] = "-" THEN 0 - DigitsValue(Tail(x), 0) ELSE DigitsValue(x, 0)

\* parse_decimal: the value of a number lexeme in tenths; the lexemes of the
\* model hold one digit behind the point.
TenthsOf(x) ==
    LET neg == x[1] = "-"
        body == IF neg THEN Tail(x) ELSE x
        point == IF "." \in Range(body)
                 THEN CHOOSE i \in 1..Len(body) : body[i] = "."
                 ELSE Len(body) + 1
        whole == DigitsValue(SubSeq(body, 1, point - 1), 0)
        frac == IF point < Len(body) THEN DigitValue(body[point + 1]) ELSE 0
        t == whole * 10 + frac
    IN IF neg THEN 0 - t ELSE t

IntRange(k) ==
    CASE k = "u8" -> 0..U8Max
      [] k = "i8" -> (0 - (U8Max + 1) \div 2)..((U8Max + 1) \div 2 - 1)
      [] k = "i16" -> (0 - (Limb \div 2))..(Limb \div 2 - 1)
      [] k \in {"u32", "usize"} -> Nat

ParseOk(v, next) == [tag |-> "Ok", v |-> v, next |-> next]

\* Deserializer::deserialize_f64 under the visitor of f64: a number is taken,
\* whole or not; null and every other lexeme is an invalid type.
ParseFloat(d, p) ==
    IF IsNumLexeme(d[p]) THEN ParseOk(Finite(TenthsOf(d[p])), p + 1)
    ELSE LoadErr("SerdeJson", "invalid type")

\* The derived Deserialize of Characteristic and Difficulty: the field
\* visitor's visit_str, which knows the labels and nothing else.
ParseLabel(e, text) ==
    IF \E i \in 1..Len(Labels(e)) : Labels(e)[i] = text
    THEN Ok(LabelVariants(e)[CHOOSE i \in 1..Len(Labels(e)) : Labels(e)[i] = text])
    ELSE LoadErr("SerdeJson", "unknown variant")

\* The position behind the value that starts at p: IgnoredAny, for a key no
\* field has.
RECURSIVE SkipValue(_, _, _)
SkipValue(d, p, depth) ==
    IF p > Len(d) THEN p
    ELSE IF d[p] \in {<<"{">>, <<"[">>} THEN SkipValue(d, p + 1, depth + 1)
    ELSE IF d[p] \in {<<"}">>, <<"]">>}
         THEN IF depth <= 1 THEN p + 1 ELSE SkipValue(d, p + 1, depth - 1)
    ELSE IF depth = 0 THEN p + 1 ELSE SkipValue(d, p + 1, depth)

FieldIndex(name, key) ==
    IF \E i \in 1..Len(Fields(name)) : Fields(name)[i].key = key
    THEN Some(CHOOSE i \in 1..Len(Fields(name)) : Fields(name)[i].key = key)
    ELSE None

\* The field of a struct value under a key.
At(name, v, key) == v[FieldIndex(name, key).v]

\* The mutant leaves an absent field at the default of its type.
Fill_TypeDefault(name, acc) ==
    [i \in 1..Len(Fields(name)) |->
        IF acc[i].tag = "Some" THEN acc[i].v ELSE DefaultOf(Fields(name)[i].ty)]

\* #[serde(default)] on a struct: a field no key gave is taken from
\* Default::default() of the struct.
Fill(name, acc) ==
    [i \in 1..Len(Fields(name)) |->
        IF acc[i].tag = "Some" THEN acc[i].v ELSE StructDefault(name)[i]]

RECURSIVE ParseValue(_, _, _), ParseStruct(_, _, _), ParseMembers(_, _, _, _),
          ParseItems(_, _, _, _)
ParseValue(ty, d, p) ==
    IF p > Len(d) THEN LoadErr("SerdeJson", "EOF while parsing a value")
    ELSE CASE ty.k \in {"String", "PathBuf"} ->
                IF IsStrLexeme(d[p]) THEN ParseOk(StrOf(d[p]), p + 1)
                ELSE LoadErr("SerdeJson", "invalid type")
           [] ty.k \in {"u32", "usize", "u8", "i16", "i8"} ->
                IF ~IsIntLexeme(d[p]) THEN LoadErr("SerdeJson", "invalid type")
                ELSE IF IntOf(d[p]) \notin IntRange(ty.k)
                     THEN LoadErr("SerdeJson", "invalid value")
                     ELSE ParseOk(IntOf(d[p]), p + 1)
           [] ty.k \in {"f64", "f32"} -> ParseFloat(d, p)
           [] ty.k = "bool" ->
                IF d[p] \in {<<"true">>, <<"false">>}
                THEN ParseOk(d[p] = <<"true">>, p + 1)
                ELSE LoadErr("SerdeJson", "invalid type")
           [] ty.k = "hex" ->
                IF ~IsStrLexeme(d[p]) THEN LoadErr("SerdeJson", "invalid type")
                ELSE LET r == VisitStr(StrOf(d[p]))
                     IN IF r.tag = "Err" THEN LoadErr("SerdeJson", "invalid value")
                        ELSE ParseOk(r.v, p + 1)
           [] ty.k = "enum8" ->
                IF ~IsIntLexeme(d[p]) THEN LoadErr("SerdeJson", "invalid type")
                ELSE IF IntOf(d[p]) \notin IntRange("u8")
                     THEN LoadErr("SerdeJson", "invalid value")
                ELSE LET r == TryFromU8(ty.n, IntOf(d[p]))
                     IN IF r.tag = "Err" THEN LoadErr("SerdeJson", r.kind)
                        ELSE ParseOk(r.v, p + 1)
           [] ty.k = "label" ->
                IF ~IsStrLexeme(d[p]) THEN LoadErr("SerdeJson", "invalid type")
                ELSE LET r == ParseLabel(ty.n, StrOf(d[p]))
                     IN IF r.tag = "Err" THEN r ELSE ParseOk(r.v, p + 1)
           [] ty.k = "struct" -> ParseStruct(ty.n, d, p)
           [] ty.k = "Vec" ->
                IF d[p] # <<"[">> THEN LoadErr("SerdeJson", "invalid type")
                ELSE ParseItems([k |-> "struct", n |-> ty.n], d, p + 1, <<>>)
           [] ty.k = "VecString" ->
                IF d[p] # <<"[">> THEN LoadErr("SerdeJson", "invalid type")
                ELSE ParseItems([k |-> "String", n |-> ""], d, p + 1, <<>>)

\* SeqAccess of serde_json under the visitor of Vec<T>: p is behind '[' or
\* behind an item.
ParseItems(ty, d, p, items) ==
    IF p > Len(d) THEN LoadErr("SerdeJson", "EOF while parsing a list")
    ELSE IF d[p] = <<"]">>
         THEN ParseOk(items, p + 1)
    ELSE LET q == IF items = <<>> THEN p ELSE p + 1
             r == ParseValue(ty, d, q)
         IN IF items # <<>> /\ d[p] # <<",">>
            THEN LoadErr("SerdeJson", "expected , or ]")
            ELSE IF r.tag = "Err" THEN r
            ELSE ParseItems(ty, d, r.next, Append(items, r.v))

\* MapAccess of serde_json under the derived visit_map: p is at a key.  acc
\* holds the fields read so far.
ParseMembers(name, d, p, acc) ==
    IF p + 2 > Len(d) \/ ~IsStrLexeme(d[p]) \/ d[p + 1] # <<":">>
    THEN LoadErr("SerdeJson", "key must be a string")
    ELSE LET i == FieldIndex(name, d[p][2])
             r == IF i.tag = "None"
                  THEN ParseOk(None, SkipValue(d, p + 2, 0))
                  ELSE ParseValue(Fields(name)[i.v].ty, d, p + 2)
             acc2 == IF i.tag = "None" THEN acc
                     ELSE [acc EXCEPT ![i.v] = Some(r.v)]
         IN IF i.tag = "Some" /\ acc[i.v].tag = "Some"
            THEN LoadErr("SerdeJson", "duplicate field")
            ELSE IF r.tag = "Err" THEN r
            ELSE IF r.next > Len(d)
                 THEN LoadErr("SerdeJson", "EOF while parsing an object")
            ELSE IF d[r.next] = <<"}">>
                 THEN ParseOk(Fill(name, acc2), r.next + 1)
            ELSE IF d[r.next] = <<",">>
                 THEN ParseMembers(name, d, r.next + 1, acc2)
            ELSE LoadErr("SerdeJson", "expected , or }")

\* deserialize_struct: the model's documents hold a struct as an object.
ParseStruct(name, d, p) ==
    IF p + 1 > Len(d) \/ d[p] # <<"{">> THEN LoadErr("SerdeJson", "invalid type")
    ELSE IF d[p + 1] = <<"}">>
         THEN ParseOk(Fill(name, [i \in 1..Len(Fields(name)) |-> None]), p + 2)
    ELSE ParseMembers(name, d, p + 1, [i \in 1..Len(Fields(name)) |-> None])

\* The mutant accepts a file only when its version is 4.0.0.
FromStr_CheckedVersion(name, d) ==
    LET r == ParseStruct(name, d, 1)
    IN IF r.tag = "Err" THEN r
       ELSE IF r.next # Len(d) + 1 THEN LoadErr("SerdeJson", "trailing characters")
       ELSE IF At(name, r.v, "version") # Str4_0_0
            THEN LoadErr("SerdeJson", "unsupported version")
       ELSE Ok(r.v)

\* serde_json::from_str::<T>(text): the value, and nothing behind it.
FromStr(name, d) ==
    LET r == ParseStruct(name, d, 1)
    IN IF r.tag = "Err" THEN r
       ELSE IF r.next # Len(d) + 1 THEN LoadErr("SerdeJson", "trailing characters")
       ELSE Ok(r.v)

(***************************************************************************)
(* The values and the documents the codec is run on.                       *)
(***************************************************************************)
StringSamples == {<<>>, Str4_0_0, <<"a", Quote, Backslash>>}

\* A list of at most MaxItems items: one item drawn from S, the others d.
ListsOf(S, d) ==
    {<<>>} \cup UNION {{[[j \in 1..n |-> d] EXCEPT ![i] = x] : i \in 1..n, x \in S} :
                        n \in 1..MaxItems}

\* The values of a field type tried, and those of a struct: its default with
\* one field set to each value of that field's type.
RECURSIVE Samples(_), StructSamples(_)
Samples(ty) ==
    CASE ty.k = "String" -> StringSamples
      [] ty.k = "PathBuf" -> {<<>>, StrSongOgg, <<"a", ".", "d", "a", "t">>}
      [] ty.k \in {"u32", "usize"} -> {0, 44100}
      [] ty.k = "u8" -> {0, U8Max}
      [] ty.k \in {"i16", "i8"} -> {0, 0 - 45, 90}
      [] ty.k \in {"f64", "f32"} ->
            {Finite(0), Finite(265), Finite(0 - 15),
             NonFinite("NaN"), NonFinite("inf"), NonFinite("-inf")}
      [] ty.k = "bool" -> BOOLEAN
      [] ty.k = "hex" -> {U32(0, 0), U32(10382, 54015)}
      [] ty.k = "enum8" -> Range(Variants(ty.n))
      [] ty.k = "label" -> Range(LabelVariants(ty.n))
      [] ty.k = "struct" -> StructSamples(ty.n)
      [] ty.k = "Vec" -> ListsOf(StructSamples(ty.n), StructDefault(ty.n))
      [] ty.k = "VecString" -> ListsOf(StringSamples, <<>>)

StructSamples(name) ==
    {StructDefault(name)} \cup
    UNION {{[StructDefault(name) EXCEPT ![i] = x] : x \in Samples(Fields(name)[i].ty)} :
            i \in 1..Len(Fields(name))}

\* A value that differs from the default in every field.
RECURSIVE Filled(_)
Filled(ty) ==
    CASE ty.k = "String" -> <<"a", Quote, Backslash>>
      [] ty.k = "PathBuf" -> <<"a", ".", "d", "a", "t">>
      [] ty.k \in {"u32", "usize"} -> 44100
      [] ty.k = "u8" -> U8Max
      [] ty.k \in {"i16", "i8"} -> 0 - 45
      [] ty.k \in {"f64", "f32"} -> Finite(265)
      [] ty.k = "bool" -> TRUE
      [] ty.k = "hex" -> U32(10382, 54015)
      [] ty.k = "enum8" -> Variants(ty.n)[Len(Variants(ty.n))]
      [] ty.k = "label" -> LabelVariants(ty.n)[Len(LabelVariants(ty.n))]
      [] ty.k = "struct" -> [i \in 1..Len(Fields(ty.n)) |-> Filled(Fields(ty.n)[i].ty)]
      [] ty.k = "Vec" ->
            <<[i \in 1..Len(Fields(ty.n)) |-> Filled(Fields(ty.n)[i].ty)]>>
      [] ty.k = "VecString" -> <<<<"a", Quote, Backslash>>>>

\* The three files of a map.
Roots == {"Audio", "Info", "Beatmap"}

\* The keys a document may lack: those of the file's struct, those of the
\* structs it holds as one object, and the integer-coded enum keys of the
\* structs it holds in lists.
KeysOf(name) == {<<name, Fields(name)[i].key>> : i \in 1..Len(Fields(name))}

OmitKeys(root) ==
    KeysOf(root)
        \cup UNION {KeysOf(Fields(root)[i].ty.n) :
                i \in {j \in 1..Len(Fields(root)) : Fields(root)[j].ty.k = "struct"}}
        \cup UNION {{key \in KeysOf(Fields(root)[i].ty.n) :
                        At(Fields(root)[i].ty.n, Fields(Fields(root)[i].ty.n), key[2]).ty.k
                            = "enum8"} :
                i \in {j \in 1..Len(Fields(root)) : Fields(root)[j].ty.k = "Vec"}}

Omits(root) ==
    {o \in SUBSET OmitKeys(root) : Cardinality(o) <= MaxOmit}
        \cup {KeysOf(root)}
        \cup UNION {{KeysOf(Fields(root)[i].ty.n)} :
                i \in {j \in 1..Len(Fields(root)) : Fields(root)[j].ty.k = "struct"}}

\* A document of a file: every field but the omitted ones, each with a value
\* that is not its default.
Document(root, omit) ==
    WriteStruct(root, Filled([k |-> "struct", n |-> root]), omit)

\* The texts tried as labels of Characteristic and Difficulty.
LabelTexts ==
    Range(Labels("Characteristic")) \cup Range(Labels("Difficulty"))
        \cup Range(Labels_RustNames("Characteristic"))
        \cup {<<>>, <<"e", "a", "s", "y">>, <<"E", "A", "S", "Y">>,
              <<"E", "a", "s", "y", " ">>, <<"E", "x", "p", "e", "r", "t", "+">>,
              <<"3", "6", "0">>, <<"L", "a", "w", "l", "e", "s", "s">>}

CodecInit ==
    /\ DirIdle
    /\ EnumIdle
    /\ FileIdle
    /\ HexIdle
    /\ \/ \E root \in Roots : \E v \in StructSamples(root) :
            cArg = [kind |-> "value", name |-> root, v |-> v]
       \/ \E root \in Roots : \E omit \in Omits(root) :
            cArg = [kind |-> "doc", name |-> root, v |-> Document(root, omit),
                    omit |-> omit]
       \/ \E e \in {"Characteristic", "Difficulty"} : \E text \in LabelTexts :
            cArg = [kind |-> "label", name |-> e, v |-> text]
    /\ cOut = None
    /\ cBack = None
    /\ cAgain = None

\* serde_json::to_string_pretty(&value)
Encode ==
    /\ cArg.kind = "value" /\ cOut = None
    /\ cOut' = Ok(JsonToString(cArg.name, cArg.v))
    /\ UNCHANGED <<cArg, cBack, cAgain, dirVars, enumVars, fileVars, hexVars>>

\* serde_json::from_str of the text just written
DecodeBack ==
    /\ cArg.kind = "value" /\ cOut.tag = "Ok" /\ cBack = None
    /\ cBack' = FromStr(cArg.name, cOut.v)
    /\ UNCHANGED <<cArg, cOut, cAgain, dirVars, enumVars, fileVars, hexVars>>

\* serde_json::to_string_pretty of the value just read
EncodeAgain ==
    /\ cArg.kind = "value" /\ cBack.tag = "Ok" /\ cAgain = None
    /\ cAgain' = Ok(JsonToString(cArg.name, cBack.v))
    /\ UNCHANGED <<cArg, cOut, cBack, dirVars, enumVars, fileVars, hexVars>>

\* Audio::from_file, Info::from_file, Beatmap::from_file on a readable file:
\* serde_json::from_str of its text
Load ==
    /\ cArg.kind = "doc" /\ cOut = None
    /\ cOut' = FromStr(cArg.name, cArg.v)
    /\ UNCHANGED <<cArg, cBack, cAgain, dirVars, enumVars, fileVars, hexVars>>

\* Deserialize of Characteristic or Difficulty from a JSON string
DecodeLabel ==
    /\ cArg.kind = "label" /\ cOut = None
    /\ cOut' = LET r == ParseValue([k |-> "label", n |-> cArg.name],
                                   <<StrLexeme(cArg.v)>>, 1)
               IN IF r.tag = "Err" THEN r ELSE Ok(r.v)
    /\ UNCHANGED <<cArg, cBack, cAgain, dirVars, enumVars, fileVars, hexVars>>

\* Serialize of the variant just read
EncodeLabel ==
    /\ cArg.kind = "label" /\ cOut.tag = "Ok" /\ cBack = None
    /\ cBack' = Ok(WriteValue([k |-> "label", n |-> cArg.name], cOut.v, {}))
    /\ UNCHANGED <<cArg, cOut, cAgain, dirVars, enumVars, fileVars, hexVars>>

CodecNext ==
    Encode \/ DecodeBack \/ EncodeAgain \/ Load \/ DecodeLabel \/ EncodeLabel

CodecSpec == CodecInit /\ [][CodecNext]_vars

(***************************************************************************)
(* from_dir on the texts of the files: a map directory whose Info, beatmap *)
(* and Audio files carry version strings of their own.                     *)
(***************************************************************************)
VersionSamples ==
    {<<>>, Str4_0_0, <<"2", ".", "6", ".", "0">>, <<"a", Quote, Backslash>>}

\* A map directory whose files all read: Info.dat with version vi that lists
\* Easy.dat and Hard.dat, both with version vb, and names BPMInfo.dat, with
\* version va.  Each file is the text the writer gives for its value.
MapDir(vi, vb, va) ==
    LET entry(f) ==
            [StructDefault("DifficultyBeatmap")
                EXCEPT ![FieldIndex("DifficultyBeatmap", "beatmapDataFilename").v] = f,
                       ![FieldIndex("DifficultyBeatmap", "lightshowDataFilename").v] =
                            LightshowDat]
        rootOf(p) ==
            IF p = Join(Dir, InfoDat) THEN "Info"
            ELSE IF p = Join(Dir, BPMInfoDat) THEN "Audio"
            ELSE "Beatmap"
        valueOf(root) ==
            IF root = "Info"
            THEN [StructDefault("Info")
                    EXCEPT ![FieldIndex("Info", "version").v] = vi,
                           ![FieldIndex("Info", "difficultyBeatmaps").v] =
                                <<entry(EasyDat), entry(HardDat)>>]
            ELSE [StructDefault(root)
                    EXCEPT ![FieldIndex(root, "version").v] =
                                IF root = "Audio" THEN va ELSE vb]
    IN [p \in {Join(Dir, f) : f \in {InfoDat, EasyDat, HardDat, BPMInfoDat}} |->
            JsonToString(rootOf(p), valueOf(rootOf(p)))]

\* T::from_file(dir.join(f)) on a file that reads: from_str of its text.
DecodeFile(name, files, f) ==
    CHOOSE r \in {FromStr(name, text) : text \in {files[Join(Dir, f)]}} : TRUE

\* The end of from_dir, given the Info infoV that was decoded and the results
\* of the loads made after it, in the order the code makes them: those of the
\* listed beatmap files and then that of the Audio file.  The first decode
\* error is returned, and otherwise the Map, each beatmap under the stem of
\* its file name.
FromDirResult(infoV, loads) ==
    LET listed == At("Info", infoV, "difficultyBeatmaps")
        n == Len(listed)
        key(i) == BeatmapKey(At("DifficultyBeatmap", listed[i], "beatmapDataFilename"))
        failed == {i \in 1..(n + 1) : loads[i].tag = "Err"}
    IN IF failed # {}
       THEN loads[CHOOSE i \in failed : \A j \in failed : i <= j]
       ELSE Ok([info |-> infoV,
                audio |-> loads[n + 1].v,
                beatmaps |->
                    [k \in {key(i) : i \in 1..n} |->
                        loads[CHOOSE i \in 1..n :
                                key(i) = k /\ \A j \in (i + 1)..n : key(j) # k].v]])

\* BeatSaberMap::from_dir on a directory whose files all read, `files` giving
\* the text of each: Info.dat is decoded, then the listed beatmap files in
\* order and the Audio file.  ri and the later loads are each bound once, as
\* the code's locals are.
FromDir(files) ==
    CHOOSE out \in
        {IF ri.tag = "Err" THEN ri
         ELSE CHOOSE map \in
                {FromDirResult(ri.v, loads) :
                    loads \in
                        {[i \in 1..(Len(At("Info", ri.v, "difficultyBeatmaps")) + 1) |->
                            IF i <= Len(At("Info", ri.v, "difficultyBeatmaps"))
                            THEN DecodeFile("Beatmap", files,
                                            At("DifficultyBeatmap",
                                               At("Info", ri.v, "difficultyBeatmaps")[i],
                                               "beatmapDataFilename"))
                            ELSE DecodeFile("Audio", files,
                                            At("InfoAudio", At("Info", ri.v, "audio"),
                                               "audioDataFilename"))]}} : TRUE
         : ri \in {DecodeFile("Info", files, InfoDat)}} : TRUE

VersionInit ==
    /\ DirIdle
    /\ EnumIdle
    /\ FileIdle
    /\ HexIdle
    /\ \E vi \in VersionSamples, vb \in VersionSamples, va \in VersionSamples :
            cArg = [kind |-> "dir", name |-> "BeatSaberMap", v |-> MapDir(vi, vb, va),
                    versions |-> [info |-> vi, beatmap |-> vb, audio |-> va]]
    /\ cOut = None
    /\ cBack = None
    /\ cAgain = None

\* BeatSaberMap::from_dir(dir)
LoadDir ==
    /\ cArg.kind = "dir" /\ cOut = None
    /\ cOut' = FromDir(cArg.v)
    /\ UNCHANGED <<cArg, cBack, cAgain, dirVars, enumVars, fileVars, hexVars>>

\* serde_json::to_string_pretty of the Info, of the Audio and of each Beatmap
\* that from_dir returned, the text of each under the key it is held under.
EncodeDir ==
    /\ cArg.kind = "dir" /\ cOut.tag = "Ok" /\ cBack = None
    /\ cBack' =
          LET held == {<<"Info", "info">>, <<"Audio", "audio">>}
                        \cup {<<"Beatmap", k>> : k \in DOMAIN cOut.v.beatmaps}
          IN Ok([h \in held |->
                    JsonToString(h[1], IF h[1] = "Info" THEN cOut.v.info
                                       ELSE IF h[1] = "Audio" THEN cOut.v.audio
                                       ELSE cOut.v.beatmaps[h[2]])])
    /\ UNCHANGED <<cArg, cOut, cAgain, dirVars, enumVars, fileVars, hexVars>>

VersionNext == LoadDir \/ EncodeDir

VersionSpec == VersionInit /\ [][VersionNext]_vars

(***************************************************************************)
(* Properties of from_dir.                                                 *)
(***************************************************************************)
\* The beatmap file names Info lists, in order.
Listed ==
    [i \in 1..Len(infoDoc.difficulty_beatmaps) |->
        infoDoc.difficulty_beatmaps[i].beatmap_data_filename]
AudioPath == Join(Dir, infoDoc.audio_data_filename)
BeatmapPath(i) == Join(Dir, Listed[i])
InfoLoads == fs[InfoPath] = "ok"
Loads(p) == fs[p] = "ok"
AllBeatmapsLoad == \A i \in 1..Len(Listed) : Loads(BeatmapPath(i))

\* The error a file that does not load is expected to produce.
ErrorOf(p) == IF fs[p] = "malformed" THEN Err("SerdeJson", p) ELSE Err("Io", p)

\* The first listed entry whose file does not load.
FirstFailing ==
    CHOOSE i \in 1..Len(Listed) :
        ~Loads(BeatmapPath(i)) /\ \A j \in 1..(i - 1) : Loads(BeatmapPath(j))

\* The key expected for each file name of the model: the base name without
\* its extension, or the whole name where there is nothing to strip.
ExpectedKey(f) ==
    CASE f = EasyDat -> <<"E", "a", "s", "y">>
      [] f = EasyJson -> <<"E", "a", "s", "y">>
      [] f = HardDat -> <<"H", "a", "r", "d">>
      [] f = SubEasyDat -> <<"E", "a", "s", "y">>
      [] f = AbsEasyDat -> <<"E", "a", "s", "y">>
      [] f = HiddenDat -> <<".", "d", "a", "t">>
      [] f = Parent -> <<".", ".">>

\* C1 (as stated): the Audio sidecar has been loaded successfully before any
\* beatmap file is read.
C1_AudioBeforeBeatmaps ==
    \A i \in 1..Len(reads) :
        reads[i].kind = "Beatmap" =>
            \E j \in 1..(i - 1) : reads[j].kind = "Audio" /\ Loads(reads[j].path)

\* C1 (amended): from_dir loads Info.dat first, then the beatmap files in the
\* order of difficulty_beatmaps, and the Audio sidecar last: every listed
\* beatmap file has been loaded successfully before the Audio sidecar is read.
C1_BeatmapsBeforeAudio ==
    \A i \in 1..Len(reads) :
        /\ reads[i].kind = "Info" => i = 1 /\ reads[i].path = InfoPath
        /\ reads[i].kind = "Beatmap" =>
              /\ 2 <= i /\ i <= Len(Listed) + 1
              /\ reads[i].path = BeatmapPath(i - 1)
              /\ reads[1].kind = "Info" /\ InfoLoads
        /\ reads[i].kind = "Audio" =>
              /\ i = Len(Listed) + 2
              /\ reads[i].path = AudioPath
              /\ reads[1].kind = "Info" /\ InfoLoads
              /\ \A k \in 1..Len(Listed) :
                    reads[k + 1] = Read("Beatmap", BeatmapPath(k)) /\ Loads(BeatmapPath(k))

C1_Witness ==
    /\ pc = "done" /\ result.tag = "Ok"
    /\ Len(Listed) >= 2
    /\ reads[Len(reads)].kind = "Audio"

\* C2 (as stated): when Info.dat loads and the Audio sidecar does not, from_dir
\* returns the Audio file's error whatever the state of the beatmap files.
C2_AudioErrorAlways ==
    (pc = "done" /\ InfoLoads /\ ~Loads(AudioPath)) => result = ErrorOf(AudioPath)

\* C2 (amended): when Info.dat loads and the Audio sidecar does not, from_dir
\* returns the Audio file's error if every listed beatmap file loads, and the
\* error of the first listed beatmap file that does not load otherwise.
C2_AudioErrorAfterBeatmaps ==
    (pc = "done" /\ InfoLoads /\ ~Loads(AudioPath)) =>
        IF AllBeatmapsLoad
        THEN result = ErrorOf(AudioPath)
        ELSE result = ErrorOf(BeatmapPath(FirstFailing))

C2_Witness ==
    /\ pc = "done" /\ InfoLoads /\ ~Loads(AudioPath)
    /\ Len(Listed) >= 1 /\ AllBeatmapsLoad
    /\ result = ErrorOf(AudioPath)

\* C3: a beatmap file that fails to load ends from_dir with that file's error,
\* and a returned Map has an entry for every listed beatmap, each file of
\* which loaded: the outcome is a complete Map or an error.
C3_NoPartialMap ==
    /\ \A i \in 1..Len(reads) :
          (reads[i].kind = "Beatmap" /\ ~Loads(reads[i].path)) =>
              pc = "done" /\ result = ErrorOf(reads[i].path)
    /\ (pc = "done" /\ InfoLoads /\ ~AllBeatmapsLoad) => result.tag = "Err"
    /\ result.tag = "Ok" =>
          \A i \in 1..Len(Listed) :
              /\ Loads(BeatmapPath(i))
              /\ ExpectedKey(Listed[i]) \in DOMAIN result.beatmaps

C3_Witness ==
    /\ pc = "done" /\ result.tag = "Err"
    /\ Len(reads) >= 3
    /\ reads[Len(reads)].kind = "Beatmap"
    /\ DOMAIN beatmaps # {}

\* C4: in a returned Map every listed entry has a key, its file name with the
\* extension stripped, and the value under that key is the beatmap decoded
\* from the file of a listed entry with that key.
C4_KeyForEveryEntry ==
    result.tag = "Ok" =>
        \A i \in 1..Len(Listed) :
            LET k == ExpectedKey(Listed[i])
            IN /\ k \in DOMAIN result.beatmaps
               /\ \E j \in 1..Len(Listed) :
                     /\ ExpectedKey(Listed[j]) = k
                     /\ result.beatmaps[k] = [beatmap |-> BeatmapPath(j)]

C4_Witness ==
    /\ result.tag = "Ok"
    /\ Listed = <<SubEasyDat, HiddenDat>>
    /\ DOMAIN result.beatmaps = {<<"E", "a", "s", "y">>, <<".", "d", "a", "t">>}

\* C5 (as stated): a returned Map has exactly as many entries as Info lists
\* difficulty beatmaps.
C5_OneEntryPerListed ==
    result.tag = "Ok" => Cardinality(DOMAIN result.beatmaps) = Len(Listed)

\* C5 (amended): a returned Map has one entry per distinct key among the
\* listed difficulty beatmaps: as many entries as Info lists when the base
\* names without extension are pairwise distinct, fewer when two coincide.
C5_OneEntryPerKey ==
    result.tag = "Ok" =>
        /\ DOMAIN result.beatmaps = {ExpectedKey(f) : f \in Range(Listed)}
        /\ Cardinality(DOMAIN result.beatmaps) <= Len(Listed)
        /\ (\A i, j \in 1..Len(Listed) :
                i # j => ExpectedKey(Listed[i]) # ExpectedKey(Listed[j]))
            <=> Cardinality(DOMAIN result.beatmaps) = Len(Listed)

C5_Witness ==
    /\ result.tag = "Ok"
    /\ Listed = <<EasyDat, HardDat>>
    /\ Cardinality(DOMAIN result.beatmaps) = 2

\* C6 (as stated): when Info.dat references a beatmap file that does not
\* exist, from_dir fails with an I/O error.
C6_MissingIsIo ==
    (pc = "done" /\ InfoLoads /\ \E i \in 1..Len(Listed) : fs[BeatmapPath(i)] = "missing")
        => (result.tag = "Err" /\ result.kind = "Io")

\* C6 (amended): when Info.dat references a beatmap file that does not exist,
\* from_dir fails and returns no Map; the error is the I/O error of the first
\* listed file that does not load when that file is missing, and the decode
\* error of an earlier listed file when that one is malformed.
C6_MissingFails ==
    (pc = "done" /\ InfoLoads /\ \E i \in 1..Len(Listed) : fs[BeatmapPath(i)] = "missing")
        => /\ result.tag = "Err"
           /\ result = ErrorOf(BeatmapPath(FirstFailing))
           /\ fs[BeatmapPath(FirstFailing)] = "missing" =>
                 result = Err("Io", BeatmapPath(FirstFailing))
           /\ fs[BeatmapPath(FirstFailing)] = "malformed" =>
                 result = Err("SerdeJson", BeatmapPath(FirstFailing))

C6_Witness ==
    /\ pc = "done" /\ InfoLoads
    /\ Len(Listed) >= 2
    /\ Loads(BeatmapPath(1))
    /\ fs[BeatmapPath(2)] = "missing"
    /\ result = Err("Io", BeatmapPath(2))

\* C7: when Info.dat does not load, from_dir returns that error right away:
\* Info.dat is the only file it reads.
C7_InfoFailureStops ==
    ~InfoLoads =>
        /\ Len(reads) <= 1
        /\ \A i \in 1..Len(reads) : reads[i] = Read("Info", InfoPath)
        /\ pc = "done" => result = ErrorOf(InfoPath)
        /\ pc \in {"info", "done"}

C7_Witness ==
    /\ pc = "done" /\ fs[InfoPath] = "malformed"
    /\ Loads(AudioPath)
    /\ Len(Listed) >= 1 /\ AllBeatmapsLoad
    /\ result = Err("SerdeJson", InfoPath)

(***************************************************************************)
(* Properties of the enum conversions.                                     *)
(***************************************************************************)
\* The largest integer of each enum's domain.
DomainMax(e) ==
    CASE e = "LineIndex" -> 3
      [] e = "LineLayer" -> 2
      [] e = "Color" -> 1
      [] e = "CutDirection" -> 8
      [] e = "MidAnchorMode" -> 2
      [] e = "ExecutionTime" -> 1

\* The range error of each enum.
OwnRangeError(e) ==
    CASE e = "LineIndex" -> "LineIndexTryFromU8"
      [] e = "LineLayer" -> "LineLayerTryFromU8"
      [] e = "Color" -> "ColorTryFromU8"
      [] e = "CutDirection" -> "CutDirectionTryFromU8"
      [] e = "MidAnchorMode" -> "MidAnchorModeTryFromU8"
      [] e = "ExecutionTime" -> "ExecutionTimeTryFromU8"

\* C8: try_from(n) succeeds exactly for the n of the enum's domain, and fails
\* for every other u8 with the enum's own range error carrying n.
C8_TryFromRange ==
    (eArg.kind = "u8" /\ eOut.tag # "None") =>
        /\ eOut.tag = "Ok" <=> eArg.v <= DomainMax(eArg.enum)
        /\ eArg.v > DomainMax(eArg.enum) =>
              eOut = [tag |-> "Err", kind |-> OwnRangeError(eArg.enum), value |-> eArg.v]

C8_Witness ==
    /\ eArg.kind = "u8" /\ eArg.enum = "CutDirection" /\ eArg.v = 9
    /\ eOut.tag = "Err" /\ eOut.kind = "CutDirectionTryFromU8" /\ eOut.value = 9

\* C9: into() gives each variant its 0-based position in declaration order,
\* try_from(v.into()) is v, and try_from(n).into() is n for n in the domain.
C9_RoundTrip ==
    /\ (eArg.kind = "variant" /\ eOut.tag # "None") =>
          /\ eOut.tag = "Ok"
          /\ eOut.v \in 0..DomainMax(eArg.enum)
          /\ Variants(eArg.enum)[eOut.v + 1] = eArg.v
          /\ eBack.tag # "None" => eBack = Ok(eArg.v)
    /\ (eArg.kind = "u8" /\ eBack.tag # "None") => eBack = Ok(eArg.v)
    /\ (eArg.kind = "u8" /\ eOut.tag = "Ok") => eOut.v = Variants(eArg.enum)[eArg.v + 1]

C9_Witness ==
    /\ eArg.kind = "variant" /\ eArg.enum = "MidAnchorMode"
    /\ eArg.v = "CounterClockwise"
    /\ eOut.tag = "Ok" /\ eOut.v = 2
    /\ eBack.tag = "Ok" /\ eBack.v = "CounterClockwise"

(***************************************************************************)
(* Properties of Beatmap::from_file.                                       *)
(***************************************************************************)
\* A field whose key is present with an integer outside its enum's domain.
Offending(f) == f.present /\ f.raw \notin 0..DomainMax(FieldEnum(f.name))

Loaded == bmFile.status = "ok" /\ bmOut.tag # "None"

\* C10 (as stated): a field outside its enum's domain makes the load fail
\* with that enum's range error, carrying the offending integer.
C10_RangeErrorReturned ==
    (Loaded /\ \E i \in 1..Len(bmFile.fields) : Offending(bmFile.fields[i])) =>
        /\ bmOut.tag = "Err"
        /\ \E i \in 1..Len(bmFile.fields) :
              /\ Offending(bmFile.fields[i])
              /\ bmOut.kind = OwnRangeError(FieldEnum(bmFile.fields[i].name))

\* C10 (amended): a field outside its enum's domain makes the load fail with
\* a decode error (Error::SerdeJson), never with a default in its place; the
\* message is that of an offending field: the enum's range error with the
\* integer when the integer is a u8, the u8 decoder's error with the integer
\* (and no enum name) when it is not.
C10_DecodeErrorReturned ==
    (Loaded /\ \E i \in 1..Len(bmFile.fields) : Offending(bmFile.fields[i])) =>
        /\ bmOut.tag = "Err"
        /\ bmOut.kind = "SerdeJson"
        /\ \E i \in 1..Len(bmFile.fields) :
              LET f == bmFile.fields[i]
              IN /\ Offending(f)
                 /\ bmOut.msg.value = f.raw
                 /\ bmOut.msg.error =
                       IF f.raw \in 0..U8Max
                       THEN OwnRangeError(FieldEnum(f.name))
                       ELSE "InvalidU8"

C10_Witness ==
    /\ Len(bmFile.fields) = 2
    /\ bmFile.fields[1] = [name |-> "color", present |-> TRUE, raw |-> 1]
    /\ bmFile.fields[2] = [name |-> "cut_direction", present |-> TRUE, raw |-> 9]
    /\ bmOut = LoadErr("SerdeJson", [error |-> "CutDirectionTryFromU8", value |-> 9])

(***************************************************************************)
(* Properties of the hex codec.                                            *)
(***************************************************************************)

\* C11: deserializing the text that serialize produced for a u32 succeeds
\* and gives the u32 back.
C11_HexRoundTrip ==
    (hArg.kind = "u32" /\ hBack.tag # "None")
        => (hBack.tag = "Ok" /\ hBack.v = hArg.v)

C11_Witness ==
    /\ hArg.kind = "u32"
    /\ hArg.v = U32(10382, 54015)
    /\ hOut.tag = "Ok"
    /\ hOut.v = <<"#", "2", "8", "8", "E", "D", "2", "F", "F">>
    /\ hBack.tag = "Ok"
    /\ hBack.v = U32(10382, 54015)

\* C12: serialize yields exactly nine characters, '#' and then eight
\* upper-case hexadecimal digits padded with zeros: 0x001414FF gives
\* #001414FF and 0 gives #00000000.
C12_EncodeShape ==
    (hArg.kind = "u32" /\ hOut.tag = "Ok")
        => /\ Len(hOut.v) = 9
           /\ hOut.v[1] = "#"
           /\ \A i \in 2..9 : hOut.v[i] \in Range(HexUpperDigits)
           /\ hArg.v = U32(20, 5375)
                => hOut.v = <<"#", "0", "0", "1", "4", "1", "4", "F", "F">>
           /\ hArg.v = U32(0, 0)
                => hOut.v = <<"#", "0", "0", "0", "0", "0", "0", "0", "0">>
           /\ hArg.v = U32(0, 10)
                => hOut.v = <<"#", "0", "0", "0", "0", "0", "0", "0", "A">>

C12_Witness ==
    /\ hArg.kind = "u32"
    /\ hArg.v = U32(20, 5375)
    /\ hOut.tag = "Ok"
    /\ hOut.v = <<"#", "0", "0", "1", "4", "1", "4", "F", "F">>

\* The text with one leading '#' removed, when there is one.
StripOneHash(t) == IF Len(t) >= 1 /\ t[1] = "#" THEN Tail(t) ELSE t

\* C13: deserialize removes one leading '#' and no more, and parses all
\* that follows as base 16: the result is that of parsing the text behind
\* the first '#', so a text with a second '#' is no hex code.
C13_OneHashStripped ==
    (hArg.kind = "str" /\ hOut.tag # "None")
        => LET parsed == FromStrRadix16(StripOneHash(hArg.v))
           IN /\ hOut.tag = "Ok" <=> parsed.tag = "Ok"
              /\ hOut.tag = "Ok" => hOut.v = parsed.v

\* C14: deserialize fails with the decode error carrying the offending text
\* whenever the text left behind the leading '#' is empty or holds a
\* character that is no hexadecimal digit, a sign included.
C14_SignRejected ==
    (hArg.kind = "str" /\ hOut.tag # "None")
        => LET rest == TrimStartHash(hArg.v)
           IN (rest = <<>> \/ \E i \in 1..Len(rest) : ToDigit16(rest[i]).tag = "None")
                => (hOut.tag = "Err" /\ hOut.kind = "invalid_value"
                        /\ hOut.text = hArg.v)

\* C15: the lower-case and the upper-case spelling of a text that
\* deserializes give the value the text gives, and serialize writes no
\* lower-case digit.
C15_CaseInsensitive ==
    /\ (hArg.kind = "str" /\ hOut.tag = "Ok" /\ hCases # None)
            => /\ hCases.lower.tag = "Ok" /\ hCases.lower.v = hOut.v
               /\ hCases.upper.tag = "Ok" /\ hCases.upper.v = hOut.v
    /\ (hArg.kind = "u32" /\ hOut.tag = "Ok")
            => \A i \in 1..Len(hOut.v) : LowerChar(hOut.v[i]) # hOut.v[i]
                                            \/ UpperChar(hOut.v[i]) = hOut.v[i]

C15_Witness ==
    /\ hArg.kind = "str"
    /\ hArg.v = <<"#", "a", "F">>
    /\ hOut.tag = "Ok"
    /\ hOut.v = U32(0, 175)
    /\ hCases # None
    /\ hCases.lower = Ok(U32(0, 175))
    /\ hCases.upper = Ok(U32(0, 175))

(***************************************************************************)
(* Properties of the JSON codec.                                           *)
(***************************************************************************)

\* No region of an Audio value has a beat that is NaN or infinite.
FiniteBeats(v) ==
    \A i \in 1..Len(At("Audio", v, "bpmData")) :
        /\ At("BpmData", At("Audio", v, "bpmData")[i], "sb").c = "finite"
        /\ At("BpmData", At("Audio", v, "bpmData")[i], "eb").c = "finite"

KeysIn(d) ==
    LET at == {i \in 1..(Len(d) - 1) : d[i + 1] = <<":">>}
    IN [j \in 1..Cardinality(at) |->
            d[CHOOSE i \in at : Cardinality({k \in at : k < i}) = j - 1][2]]

\* The keys of the schema for a value, in declaration order: those of a
\* struct, each followed by the keys of its field, and those of every item
\* of a list.
RECURSIVE SchemaKeys(_, _), FieldKeys(_, _, _), ItemKeys(_, _, _)
SchemaKeys(ty, v) ==
    CASE ty.k = "struct" -> FieldKeys(ty.n, v, 1)
      [] ty.k = "Vec" -> ItemKeys(ty.n, v, 1)
      [] OTHER -> <<>>

FieldKeys(name, v, i) ==
    IF i > Len(Fields(name)) THEN <<>>
    ELSE <<Fields(name)[i].key>> \o SchemaKeys(Fields(name)[i].ty, v[i])
            \o FieldKeys(name, v, i + 1)

ItemKeys(name, items, i) ==
    IF i > Len(items) THEN <<>>
    ELSE SchemaKeys([k |-> "struct", n |-> name], items[i]) \o ItemKeys(name, items, i + 1)

\* Every key of the schema stands in the text written for a value, in
\* declaration order.
EveryKeyWritten ==
    (cArg.kind = "value" /\ cOut.tag = "Ok")
        => KeysIn(cOut.v) = SchemaKeys([k |-> "struct", n |-> cArg.name], cArg.v)

RECURSIVE Kept(_, _, _)
Kept(name, out, omit) ==
    \A i \in 1..Len(Fields(name)) :
        <<name, Fields(name)[i].key>> \notin omit
            => CASE Fields(name)[i].ty.k = "struct" ->
                        Kept(Fields(name)[i].ty.n, out[i], omit)
                 [] Fields(name)[i].ty.k = "Vec" ->
                        Len(out[i]) = 1 /\ Kept(Fields(name)[i].ty.n, out[i][1], omit)
                 [] OTHER -> out[i] = Filled(Fields(name)[i].ty)

Absent(name, key) == <<name, key>> \in cArg.omit

\* C18: an Info document that lacks fields loads; an absent version is
\* 4.0.0, an absent songPreviewFilename song.ogg, an absent
\* coverImageFilename cover.png, and audio has songFilename song.ogg and
\* audioDataFilename BPMInfo.dat when the audio object is absent and when it
\* is there without those keys; the keys that are there keep their values.
C18_InfoDefaults ==
    (cArg.kind = "doc" /\ cArg.name = "Info" /\ cOut.tag # "None")
        => /\ cOut.tag = "Ok"
           /\ Absent("Info", "version")
                => At("Info", cOut.v, "version") = <<"4", ".", "0", ".", "0">>
           /\ Absent("Info", "songPreviewFilename")
                => At("Info", cOut.v, "songPreviewFilename")
                        = <<"s", "o", "n", "g", ".", "o", "g", "g">>
           /\ Absent("Info", "coverImageFilename")
                => At("Info", cOut.v, "coverImageFilename")
                        = <<"c", "o", "v", "e", "r", ".", "p", "n", "g">>
           /\ (Absent("Info", "audio") \/ Absent("InfoAudio", "songFilename"))
                => At("InfoAudio", At("Info", cOut.v, "audio"), "songFilename")
                        = <<"s", "o", "n", "g", ".", "o", "g", "g">>
           /\ (Absent("Info", "audio") \/ Absent("InfoAudio", "audioDataFilename"))
                => At("InfoAudio", At("Info", cOut.v, "audio"), "audioDataFilename")
                        = <<"B", "P", "M", "I", "n", "f", "o", ".", "d", "a", "t">>
           /\ Kept("Info", cOut.v, cArg.omit)

C18_Witness ==
    /\ cArg.kind = "doc"
    /\ cArg.name = "Info"
    /\ cArg.omit = {<<"InfoAudio", "songFilename">>, <<"InfoAudio", "audioDataFilename">>}
    /\ cOut.tag = "Ok"
    /\ At("InfoAudio", At("Info", cOut.v, "audio"), "songFilename")
            = <<"s", "o", "n", "g", ".", "o", "g", "g">>
    /\ At("InfoAudio", At("Info", cOut.v, "audio"), "audioDataFilename")
            = <<"B", "P", "M", "I", "n", "f", "o", ".", "d", "a", "t">>
    /\ At("InfoAudio", At("Info", cOut.v, "audio"), "bpm") = Finite(265)

\* The default the specification names for an absent top-level field of an
\* Audio or a Beatmap.
ZeroOrEmpty(f) ==
    IF f.key = "version" THEN <<"4", ".", "0", ".", "0">>
    ELSE IF f.ty.k \in {"u32", "usize"} THEN 0
    ELSE <<>>

\* C19: an Audio or Beatmap document that lacks fields loads; each absent
\* top-level field is 4.0.0 for version, 0 for a number, empty for a string
\* and for a collection, whatever else is absent; an integer-coded enum key
\* absent from an object gives the variant of ordinal 0; the keys that are
\* there keep their values.
C19_FileDefaults ==
    (cArg.kind = "doc" /\ cArg.name \in {"Audio", "Beatmap"} /\ cOut.tag # "None")
        => /\ cOut.tag = "Ok"
           /\ \A i \in 1..Len(Fields(cArg.name)) :
                LET f == Fields(cArg.name)[i]
                IN /\ Absent(cArg.name, f.key) => cOut.v[i] = ZeroOrEmpty(f)
                   /\ (~Absent(cArg.name, f.key) /\ f.ty.k = "Vec")
                        => \A j \in 1..Len(Fields(f.ty.n)) :
                            LET g == Fields(f.ty.n)[j]
                            IN (g.ty.k = "enum8" /\ Absent(f.ty.n, g.key))
                                => /\ Len(cOut.v[i]) = 1
                                   /\ cOut.v[i][1][j] = Variants(g.ty.n)[1]
           /\ Kept(cArg.name, cOut.v, cArg.omit)

C19_Witness ==
    /\ cArg.kind = "doc"
    /\ cArg.name = "Beatmap"
    /\ cArg.omit = {<<"Beatmap", "version">>, <<"ColorNoteData", "d">>}
    /\ cOut.tag = "Ok"
    /\ At("Beatmap", cOut.v, "version") = <<"4", ".", "0", ".", "0">>
    /\ At("ColorNoteData", At("Beatmap", cOut.v, "colorNotesData")[1], "d") = "Up"
    /\ At("ColorNoteData", At("Beatmap", cOut.v, "colorNotesData")[1], "c") = "RightSaber"

\* The labels the specification lists.
ListedLabels(e) ==
    IF e = "Characteristic"
    THEN {<<"S", "t", "a", "n", "d", "a", "r", "d">>,
          <<"N", "o", "A", "r", "r", "o", "w", "s">>,
          <<"O", "n", "e", "S", "a", "b", "e", "r">>,
          <<"3", "6", "0", "D", "e", "g", "r", "e", "e">>,
          <<"9", "0", "D", "e", "g", "r", "e", "e">>,
          <<"L", "e", "g", "a", "c", "y">>}
    ELSE {<<"E", "a", "s", "y">>,
          <<"N", "o", "r", "m", "a", "l">>,
          <<"H", "a", "r", "d">>,
          <<"E", "x", "p", "e", "r", "t">>,
          <<"E", "x", "p", "e", "r", "t", "P", "l", "u", "s">>}

\* C20: a string decodes as a Characteristic or a Difficulty exactly when it
\* is one of the listed labels, and the variant it decodes to encodes as
\* that label again.
C20_LabelsDecode ==
    (cArg.kind = "label" /\ cOut.tag # "None")
        => /\ cOut.tag = "Ok" <=> cArg.v \in ListedLabels(cArg.name)
           /\ cOut.tag = "Err" => cOut.kind = "SerdeJson"
           /\ cBack.tag # "None" => cBack.v = <<<<Quote>> \o cArg.v \o <<Quote>>>>

C20_Witness ==
    /\ cArg.kind = "label"
    /\ cArg.name = "Characteristic"
    /\ cArg.v = <<"3", "6", "0", "D", "e", "g", "r", "e", "e">>
    /\ cOut.tag = "Ok"
    /\ cOut.v = "ThreeSixtyDegree"
    /\ cBack.tag = "Ok"
    /\ cBack.v = <<<<Quote>> \o <<"3", "6", "0", "D", "e", "g", "r", "e", "e">> \o <<Quote>>>>

(***************************************************************************)
(* Properties of from_dir: which files are read, and when reading stops.   *)
(***************************************************************************)
\* Path::starts_with: p begins with every component of d.
StartsWith(p, d) ==
    /\ Len(p) >= Len(d)
    /\ SubSeq(p, 1, Len(d)) = d
    /\ Len(p) > Len(d) => p[Len(d) + 1] = Sep

\* C21: every Audio and beatmap file that from_dir reads lies under the given
\* directory: the path that is read has the directory as its prefix, whatever
\* the file name listed in Info, an absolute one included.
C21_ReadsUnderDir ==
    \A i \in 1..Len(reads) :
        reads[i].kind \in {"Beatmap", "Audio"} => StartsWith(reads[i].path, Dir)

\* C22: from_dir fails fast and never retries.  The beatmap files are read
\* one at a time in the order of difficulty_beatmaps, each listed entry at
\* most once; a read that fails is the last read, and from_dir has returned
\* with the error of that read, unchanged.
C22_FailFast ==
    /\ Len(reads) <= Len(Listed) + 2
    /\ \A i \in 1..Len(reads) :
          reads[i].kind = "Beatmap" =>
              /\ 2 <= i /\ i <= Len(Listed) + 1
              /\ reads[i].path = BeatmapPath(i - 1)
              /\ \A j \in 1..(i - 1) : Loads(reads[j].path)
    /\ \A i \in 1..Len(reads) :
          ~Loads(reads[i].path) =>
              /\ i = Len(reads)
              /\ pc = "done"
              /\ result = ErrorOf(reads[i].path)

C22_Witness ==
    /\ pc = "done"
    /\ Len(Listed) = 2
    /\ fs[BeatmapPath(1)] = "malformed"
    /\ ~Loads(BeatmapPath(2))
    /\ ~Loads(AudioPath)
    /\ reads = <<Read("Info", InfoPath), Read("Beatmap", BeatmapPath(1))>>
    /\ result = Err("SerdeJson", BeatmapPath(1))

\* The last listed entry whose key is k.
LastWithKey(k) ==
    CHOOSE i \in 1..Len(Listed) :
        /\ ExpectedKey(Listed[i]) = k
        /\ \A j \in (i + 1)..Len(Listed) : ExpectedKey(Listed[j]) # k

\* C23: when two listed entries have file names with the same stem, from_dir
\* reads both files, the returned mapping holds a single entry under that
\* stem, and its value is the beatmap loaded from the later of the entries.
C23_LaterEntryWins ==
    result.tag = "Ok" =>
        \A i, j \in 1..Len(Listed) :
            (i < j /\ ExpectedKey(Listed[i]) = ExpectedKey(Listed[j])) =>
                LET k == ExpectedKey(Listed[i])
                IN /\ reads[i + 1] = Read("Beatmap", BeatmapPath(i))
                   /\ reads[j + 1] = Read("Beatmap", BeatmapPath(j))
                   /\ k \in DOMAIN result.beatmaps
                   /\ Cardinality(DOMAIN result.beatmaps)
                          = Cardinality({ExpectedKey(f) : f \in Range(Listed)})
                   /\ Cardinality(DOMAIN result.beatmaps) < Len(Listed)
                   /\ result.beatmaps[k] = [beatmap |-> BeatmapPath(LastWithKey(k))]

C23_Witness ==
    /\ result.tag = "Ok"
    /\ Listed = <<SubEasyDat, EasyJson>>
    /\ reads[2] = Read("Beatmap", Join(Dir, SubEasyDat))
    /\ reads[3] = Read("Beatmap", Join(Dir, EasyJson))
    /\ DOMAIN result.beatmaps = {<<"E", "a", "s", "y">>}
    /\ result.beatmaps[<<"E", "a", "s", "y">>] = [beatmap |-> Join(Dir, EasyJson)]

\* The lightshow file of the directory, which the entries of Info name.
LightshowPath == Join(Dir, LightshowDat)

\* What from_dir returns from a directory whose files have the statuses
\* `files`: the error of the first of Info.dat, the listed beatmap files in
\* order and the Audio file that does not load, and the Map otherwise.
ErrorIn(files, p) ==
    IF files[p] = "malformed" THEN Err("SerdeJson", p) ELSE Err("Io", p)

OutcomeIn(files) ==
    LET failing == {i \in 1..Len(Listed) : files[BeatmapPath(i)] # "ok"}
    IN IF files[InfoPath] # "ok" THEN ErrorIn(files, InfoPath)
       ELSE IF failing # {}
            THEN ErrorIn(files, BeatmapPath(CHOOSE i \in failing : \A j \in failing : i <= j))
       ELSE IF files[AudioPath] # "ok" THEN ErrorIn(files, AudioPath)
       ELSE [tag |-> "Ok",
             info |-> infoDoc,
             audio |-> [audio |-> AudioPath],
             beatmaps |-> [k \in {ExpectedKey(f) : f \in Range(Listed)} |->
                              [beatmap |-> BeatmapPath(LastWithKey(k))]]]

FileText(f) == cArg.v[Join(Dir, f)]

\* The version a text carries: the lexeme of its first key, version.
VersionLexeme(d) == SubSeq(d, 2, 4)

\* C25: the version is never validated.  from_dir succeeds on a directory
\* whose Info, beatmap and Audio files carry any version strings, the same
\* or three different ones, 4.0.0 or not: each file loads, the value loaded
\* from it holds the version string of its file unchanged, and encoding
\* that value emits the same version again.
C25_VersionUnchecked ==
    (cArg.kind = "dir")
        => /\ VersionLexeme(FileText(InfoDat))
                = <<KeyLexeme("version"), <<":">>, StrLexeme(cArg.versions.info)>>
           /\ VersionLexeme(FileText(EasyDat))
                = <<KeyLexeme("version"), <<":">>, StrLexeme(cArg.versions.beatmap)>>
           /\ VersionLexeme(FileText(HardDat)) = VersionLexeme(FileText(EasyDat))
           /\ VersionLexeme(FileText(BPMInfoDat))
                = <<KeyLexeme("version"), <<":">>, StrLexeme(cArg.versions.audio)>>
           /\ cOut.tag # "None"
                => /\ cOut.tag = "Ok"
                   /\ At("Info", cOut.v.info, "version") = cArg.versions.info
                   /\ At("Audio", cOut.v.audio, "version") = cArg.versions.audio
                   /\ DOMAIN cOut.v.beatmaps = {<<"E", "a", "s", "y">>, <<"H", "a", "r", "d">>}
                   /\ \A k \in DOMAIN cOut.v.beatmaps :
                        At("Beatmap", cOut.v.beatmaps[k], "version") = cArg.versions.beatmap
           /\ cBack.tag # "None"
                => /\ cBack.tag = "Ok"
                   /\ cBack.v[<<"Info", "info">>] = FileText(InfoDat)
                   /\ cBack.v[<<"Audio", "audio">>] = FileText(BPMInfoDat)
                   /\ cBack.v[<<"Beatmap", <<"E", "a", "s", "y">>>>] = FileText(EasyDat)
                   /\ cBack.v[<<"Beatmap", <<"H", "a", "r", "d">>>>] = FileText(HardDat)

\* from_dir has loaded a directory whose Info, beatmap and Audio files carry
\* three different version strings, and the loaded values have been encoded.
C25_Witness ==
    /\ cArg.kind = "dir"
    /\ cArg.versions = [info |-> <<"4", ".", "0", ".", "0">>,
                        beatmap |-> <<"a", Quote, Backslash>>,
                        audio |-> <<>>]
    /\ cOut.tag = "Ok"
    /\ At("Info", cOut.v.info, "version") = <<"4", ".", "0", ".", "0">>
    /\ At("Beatmap", cOut.v.beatmaps[<<"E", "a", "s", "y">>], "version")
            = <<"a", Quote, Backslash>>
    /\ At("Audio", cOut.v.audio, "version") = <<>>
    /\ cBack.tag = "Ok"
    /\ VersionLexeme(cBack.v[<<"Audio", "audio">>])
            = <<KeyLexeme("version"), <<":">>, <<Quote, Quote>>>>

(***************************************************************************)
(* Properties of the hex codec: the range of u32.                          *)
(***************************************************************************)
HexDigitChars ==
    {"0", "1", "2", "3", "4", "5", "6", "7", "8", "9",
     "a", "b", "c", "d", "e", "f", "A", "B", "C", "D", "E", "F"}

\* A text of hexadecimal digits and nothing else.
HexDigitsOnly(t) == t # <<>> /\ \A i \in 1..Len(t) : t[i] \in HexDigitChars

\* The digits of a text from its first digit that is not 0.
RECURSIVE Significant(_)
Significant(t) ==
    IF t # <<>> /\ Head(t) = "0" THEN Significant(Tail(t)) ELSE t

\* The number a text of at most four hexadecimal digits spells.
RECURSIVE PlainValue(_)
PlainValue(t) ==
    IF t = <<>> THEN 0
    ELSE LET c == t[Len(t)]
             d == CASE c \in {"a", "A"} -> 10
                    [] c \in {"b", "B"} -> 11
                    [] c \in {"c", "C"} -> 12
                    [] c \in {"d", "D"} -> 13
                    [] c \in {"e", "E"} -> 14
                    [] c \in {"f", "F"} -> 15
                    [] OTHER -> CHOOSE n \in 0..9 : DecDigits[n + 1] = c
         IN PlainValue(SubSeq(t, 1, Len(t) - 1)) * 16 + d

\* '#' and the eight upper-case digits of the number the digits spell.
Canonical(sig) == <<"#">> \o Zeros(8 - Len(sig)) \o ToUpper(sig)

\* C26: hex decode neither wraps nor truncates.  For a text of hexadecimal
\* digits behind at most one '#': when its value exceeds 0xFFFFFFFF (more
\* than eight digits from the first that is not 0) deserialize fails with
\* the decode error; otherwise it gives the plain value of the digits,
\* however few, and serialize of that value is '#' and the same digits in
\* upper case, padded with zeros to eight.
C26_NoWrap ==
    (hArg.kind = "str" /\ hOut.tag # "None" /\ HexDigitsOnly(StripOneHash(hArg.v)))
        => LET sig == Significant(StripOneHash(hArg.v))
           IN IF Len(sig) > 8
              THEN hOut.tag = "Err" /\ hOut.kind = "invalid_value" /\ hOut.text = hArg.v
              ELSE /\ hOut.tag = "Ok"
                   /\ Len(sig) <= 4 => hOut.v = U32(0, PlainValue(sig))
                   /\ hArg.v = <<"#", "F", "F">> => hOut.v = U32(0, 255)
                   /\ hBack.tag # "None" => hBack.v = Canonical(sig)

C26_Witness ==
    /\ hArg.kind = "str"
    /\ hArg.v = <<"#", "1", "0", "0", "0", "0", "0", "0", "0", "0">>
    /\ hOut.tag = "Err"
    /\ hOut.text = hArg.v
    /\ hBack = None
    /\ hCases # None

====
